---- MODULE Spec2Model ----
(***************************************************************************)
(* Schedule execution engine of the smart-home timer backend               *)
(* (backend/src/services/scheduler.ts with its collaborators db.ts and     *)
(* tuya.ts).  Time is the JavaScript millisecond clock; every await of the *)
(* source is a point where another run may be scheduled.                   *)
(*                                                                         *)
(* JavaScript numbers that may carry one decimal (sensor readings and      *)
(* condition thresholds) are represented by the integer 10 * x.            *)
(***************************************************************************)
EXTENDS Integers, Sequences, FiniteSets, TLC

VARIABLES
  now,                 \* Date.now(), in milliseconds
  store,               \* RTDB node 'users': sequence of [userId, schedules]
  lastExecutionTimes,  \* Map<string, number> of scheduler.ts
  timerNext,           \* instant at which the setInterval timer expires next
  runs,                \* the checkSchedules / triggerTimeSlot invocations, in start order
                       \* (started: the instant a tick was started at, 0 for a route call)
  fired,               \* history: how often each (key, instant, kind of run) wrote a dedup entry
  checked,             \* history: the shouldExecuteSlot evaluations of ticks and their outcome
  edits,               \* number of store edits made so far
  cIn, cOut            \* input and output of a stand-alone call (checkCondition,
                       \* convertToTuyaCommands, or a device request and its progress)

vars == <<now, store, lastExecutionTimes, timerNext, runs, fired, checked, edits, cIn, cOut>>

\* ------------------------------------------------------------------ bounds
MaxTicks == 2          \* checkSchedules runs started in one behaviour
MaxManual == 1         \* triggerTimeSlot calls in one behaviour
MaxElapsed == 3        \* clock steps in one behaviour
MaxEdits == 1          \* store edits in one behaviour
MaxAttempts == 3       \* re-issues of one device request that are counted (more count as this many)

\* ------------------------------------------------------------ wall clock
ClockStepMs == 30 * 1000
MinuteMs == 60 * 1000
HourMs == 60 * MinuteMs
DayMs == 24 * HourMs

IntervalMs == 60 * 1000
DedupWindowMs == 2 * 60 * 1000

DAY_MAP == <<"sunday", "monday", "tuesday", "wednesday", "thursday", "friday", "saturday">>

\* instant of weekday d (0 = sunday), h:m:s, counted from a sunday 00:00 local time
At(d, h, m, s) == 7 * DayMs + d * DayMs + h * HourMs + m * MinuteMs + s * 1000

getHours(t) == (t % DayMs) \div HourMs
getMinutes(t) == (t % HourMs) \div MinuteMs
getDay(t) == (t \div DayMs) % 7

\* n.toString().padStart(2, '0') for 0 <= n <= 99, as a sequence of digits
Pad2(n) == IF n < 10 THEN <<0, n>> ELSE <<n \div 10, n % 10>>

\* getCurrentTime without padStart
getCurrentTimeUnpadded(t) ==
  (IF getHours(t) < 10 THEN <<getHours(t)>> ELSE Pad2(getHours(t))) \o <<10>>
  \o (IF getMinutes(t) < 10 THEN <<getMinutes(t)>> ELSE Pad2(getMinutes(t)))

\* `${hours}:${minutes}`; the colon is written 10
getCurrentTime(t) == Pad2(getHours(t)) \o <<10>> \o Pad2(getMinutes(t))

getCurrentDay(t) == DAY_MAP[getDay(t) + 1]

\* "HH:MM" literal of a stored slot
HHMM(h1, h2, m1, m2) == <<h1, h2, 10, m1, m2>>

\* ------------------------------------------------------------ small helpers
Has(r, f) == f \in DOMAIN r

\* includes that takes an empty list for "every element"
IncludesOrEmpty(seq, x) == seq = <<>> \/ \E i \in 1..Len(seq) : seq[i] = x

Includes(seq, x) == \E i \in 1..Len(seq) : seq[i] = x

\* tagged JavaScript values carried by a vendor instruction or a status field
B(x) == [b |-> x]
N(x) == [n |-> x]
S(x) == [s |-> x]
J(x) == [json |-> x]

Instr(code, value) == [code |-> code, value |-> value]

\* `${schedule.id}-${slot.id}`: ids are sequences of characters
executionKey(schedule, slot) == schedule.id \o <<"-">> \o slot.id

\* ------------------------------------------------------- command translator
\* Math.max that lets its second argument through whatever the first
Max2Second(a, b) == b

Max2(a, b) == IF a >= b THEN a ELSE b
Min2(a, b) == IF a <= b THEN a ELSE b

\* Math.round(n / d) for d > 0: the nearest integer, halves towards +infinity
MathRound(n, d) == (2 * n + d) \div (2 * d)

\* rgbToHsv that wraps with `if (h <= 0) h += 360`
rgbToHsvWrapZero(r, g, b) ==
  LET max == Max2(r, Max2(g, b))
      min == Min2(r, Min2(g, b))
      diff == max - min
      s == IF max = 0 THEN 0 ELSE MathRound(1000 * diff, max)
      v == MathRound(1000 * max, 255)
      h0 == IF diff = 0 THEN 0
            ELSE IF max = r THEN MathRound(60 * (g - b), diff)
            ELSE IF max = g THEN MathRound(60 * ((b - r) + 2 * diff), diff)
            ELSE MathRound(60 * ((r - g) + 4 * diff), diff)
      h == IF diff # 0 /\ h0 <= 0 THEN h0 + 360 ELSE h0
  IN  [h |-> h, s |-> s, v |-> v]

\* rgbToHsv without the `if (h < 0) h += 360` line
rgbToHsvNoWrap(r, g, b) ==
  LET max == Max2(r, Max2(g, b))
      min == Min2(r, Min2(g, b))
      diff == max - min
      s == IF max = 0 THEN 0 ELSE MathRound(1000 * diff, max)
      v == MathRound(1000 * max, 255)
      h == IF diff = 0 THEN 0
           ELSE IF max = r THEN MathRound(60 * (g - b), diff)
           ELSE IF max = g THEN MathRound(60 * ((b - r) + 2 * diff), diff)
           ELSE MathRound(60 * ((r - g) + 4 * diff), diff)
  IN  [h |-> h, s |-> s, v |-> v]

\* rgbToHsv(r, g, b) for integer channels; the result is {h, s, v}
rgbToHsv(r, g, b) ==
  LET max == Max2(r, Max2(g, b))
      min == Min2(r, Min2(g, b))
      diff == max - min
      s == IF max = 0 THEN 0 ELSE MathRound(1000 * diff, max)
      v == MathRound(1000 * max, 255)
      h0 == IF diff = 0 THEN 0
            ELSE IF max = r THEN MathRound(60 * (g - b), diff)
            ELSE IF max = g THEN MathRound(60 * ((b - r) + 2 * diff), diff)
            ELSE MathRound(60 * ((r - g) + 4 * diff), diff)
      h == IF h0 < 0 THEN h0 + 360 ELSE h0
  IN  [h |-> h, s |-> s, v |-> v]

\* the TuyaLight branch with the brightness and colorTemp tests written as truthiness tests
tuyaLightCommandsTruthy(command) ==
  (IF Has(command, "workMode") /\ command.workMode # ""
     THEN <<Instr("work_mode", S(command.workMode))>> ELSE <<>>)
  \o (IF Has(command, "brightness") /\ command.brightness # 0
     THEN <<Instr("bright_value_v2", N(Max2(10, MathRound(command.brightness * 10, 1))))>> ELSE <<>>)
  \o (IF Has(command, "colorTemp") /\ command.colorTemp # 0
     THEN <<Instr("temp_value_v2", N(command.colorTemp))>> ELSE <<>>)
  \o (IF Has(command, "colorHSV")
     THEN <<Instr("work_mode", S("colour")), Instr("colour_data_v2", J(command.colorHSV))>> ELSE <<>>)

\* the TuyaLight branch: each optional field pushes its own instructions
tuyaLightCommands(command) ==
  (IF Has(command, "workMode") /\ command.workMode # ""
     THEN <<Instr("work_mode", S(command.workMode))>> ELSE <<>>)
  \o (IF Has(command, "brightness")
     THEN <<Instr("bright_value_v2", N(Max2(10, MathRound(command.brightness * 10, 1))))>> ELSE <<>>)
  \o (IF Has(command, "colorTemp")
     THEN <<Instr("temp_value_v2", N(command.colorTemp))>> ELSE <<>>)
  \o (IF Has(command, "colorHSV")
     THEN <<Instr("work_mode", S("colour")), Instr("colour_data_v2", J(command.colorHSV))>> ELSE <<>>)

\* the Thermostat branch: mode unless empty or 'off', temperature if truthy
thermostatCommands(command) ==
  (IF Has(command, "mode") /\ command.mode # "" /\ command.mode # "off"
     THEN <<Instr("mode", S(command.mode))>> ELSE <<>>)
  \o (IF Has(command, "temperature") /\ command.temperature # 0
     THEN <<Instr("temp", N(command.temperature))>> ELSE <<>>)

\* deviceCategory of an action that stores none
NoCategory == ""

\* the OnOff branch with 'kt' left out of the first category test
onOffCommandsKtForgotten(command, deviceCategory) ==
  IF deviceCategory \in {"infrared_ac"}
    THEN <<Instr("switch", B(command.on))>>
  ELSE IF deviceCategory \in {"dj", "dd", "xdd"}
    THEN <<Instr("switch_led", B(command.on))>>
  ELSE <<Instr("switch_led", B(command.on)), Instr("switch_1", B(command.on)),
         Instr("switch", B(command.on))>>

\* the OnOff branch: one code for the AC and for the light categories, else all three
onOffCommands(command, deviceCategory) ==
  IF deviceCategory \in {"infrared_ac", "kt"}
    THEN <<Instr("switch", B(command.on))>>
  ELSE IF deviceCategory \in {"dj", "dd", "xdd"}
    THEN <<Instr("switch_led", B(command.on))>>
  ELSE <<Instr("switch_led", B(command.on)), Instr("switch_1", B(command.on)),
         Instr("switch", B(command.on))>>

\* the ColorTemperature branch with Math.floor in place of Math.round
colorTemperatureCommandsFloor(command) ==
  <<Instr("temp_value_v2", N(((command.temperatureK - 2700) * 1000) \div (6500 - 2700)))>>

\* the ColorTemperature branch
colorTemperatureCommands(command) ==
  <<Instr("temp_value_v2", N(MathRound((command.temperatureK - 2700) * 1000, 6500 - 2700)))>>

\* the FanSpeed branch with >= in place of >
fanSpeedCommandsInclusive(command) ==
  <<Instr("fan", S(IF command.speedPercent >= 66 THEN "high"
                   ELSE IF command.speedPercent >= 33 THEN "mid" ELSE "low"))>>

\* the FanSpeed branch
fanSpeedCommands(command) ==
  <<Instr("fan", S(IF command.speedPercent > 66 THEN "high"
                   ELSE IF command.speedPercent > 33 THEN "mid" ELSE "low"))>>

\* the switch with its last case taken for every other type as well
convertToTuyaCommandsNoDefault(command, deviceCategory) ==
  CASE command.type = "OnOff" ->
         onOffCommands(command, deviceCategory)
    [] command.type = "TuyaAC" ->
         <<Instr("mode", S(command.mode)), Instr("temp", N(command.temperature)),
           Instr("fan", S(command.fan))>>
    [] command.type = "TuyaLight" -> tuyaLightCommands(command)
    [] command.type = "Brightness" ->
         <<Instr("bright_value_v2", N(Max2(10, MathRound(command.brightness * 1000, 100))))>>
    [] command.type = "ColorTemperature" ->
         colorTemperatureCommands(command)
    [] command.type = "ColorRGB" ->
         <<Instr("work_mode", S("colour")),
           Instr("colour_data_v2", J(rgbToHsv(command.r, command.g, command.b)))>>
    [] command.type = "Thermostat" -> thermostatCommands(command)
    [] OTHER ->
         <<Instr("fan", S(IF Has(command, "speedPercent") /\ command.speedPercent > 66 THEN "high"
                          ELSE IF Has(command, "speedPercent") /\ command.speedPercent > 33 THEN "mid"
                          ELSE "low"))>>

convertToTuyaCommands(command, deviceCategory) ==
  CASE command.type = "OnOff" ->
         onOffCommands(command, deviceCategory)
    [] command.type = "TuyaAC" ->
         <<Instr("mode", S(command.mode)), Instr("temp", N(command.temperature)),
           Instr("fan", S(command.fan))>>
    [] command.type = "TuyaLight" -> tuyaLightCommands(command)
    [] command.type = "Brightness" ->
         <<Instr("bright_value_v2", N(Max2(10, MathRound(command.brightness * 1000, 100))))>>
    [] command.type = "ColorTemperature" ->
         colorTemperatureCommands(command)
    [] command.type = "ColorRGB" ->
         <<Instr("work_mode", S("colour")),
           Instr("colour_data_v2", J(rgbToHsv(command.r, command.g, command.b)))>>
    [] command.type = "Thermostat" -> thermostatCommands(command)
    [] command.type = "FanSpeed" -> fanSpeedCommands(command)
    [] OTHER -> <<>>

\* ------------------------------------------------------ condition evaluator
\* Number(raw) of a status value: a number is itself; a string of decimal
\* digits is its value ('' is 0); any other string is NaN.  Numbers are
\* carried as 10 * x (see the module header).
Digits == {"0", "1", "2", "3", "4", "5", "6", "7", "8", "9"}
DigitVal == ("0" :> 0) @@ ("1" :> 1) @@ ("2" :> 2) @@ ("3" :> 3) @@ ("4" :> 4) @@
            ("5" :> 5) @@ ("6" :> 6) @@ ("7" :> 7) @@ ("8" :> 8) @@ ("9" :> 9)

RECURSIVE DecimalValue(_)
DecimalValue(chars) ==
  IF chars = <<>> THEN 0
  ELSE 10 * DecimalValue(SubSeq(chars, 1, Len(chars) - 1)) + DigitVal[chars[Len(chars)]]

NaN == [nan |-> TRUE, x10 |-> 0]
Num(x10) == [nan |-> FALSE, x10 |-> x10]

Number(raw) ==
  IF Has(raw, "n") THEN Num(10 * raw.n)
  ELSE IF \A i \in 1..Len(raw.s) : raw.s[i] \in Digits THEN Num(10 * DecimalValue(raw.s))
  ELSE NaN

\* raw != null
NotNull(status, code) == Has(status, code) /\ ~Has(status[code], "null")

\* sensorValue of checkCondition: [null |-> TRUE] or a number
sensorValueOf(condition, status) ==
  IF condition.metric = "temperature" THEN
    IF NotNull(status, "va_temperature")
      THEN LET v == Number(status.va_temperature)
           IN  [null |-> FALSE, num |-> IF v.nan THEN NaN ELSE Num(v.x10 \div 10)]
      ELSE [null |-> TRUE]
  ELSE IF condition.metric = "humidity" THEN
    IF NotNull(status, "va_humidity")
      THEN [null |-> FALSE, num |-> Number(status.va_humidity)]
      ELSE [null |-> TRUE]
  ELSE [null |-> TRUE]

\* the switch with >= and <= compared as > and <
CompareStrict(operator, a, value10) ==
  CASE operator \in {">", ">="} -> ~a.nan /\ a.x10 > value10
    [] operator \in {"<", "<="} -> ~a.nan /\ a.x10 < value10
    [] OTHER -> TRUE

\* JavaScript relational operators: every comparison with NaN is false
Compare(operator, a, value10) ==
  CASE operator = ">" -> ~a.nan /\ a.x10 > value10
    [] operator = "<" -> ~a.nan /\ a.x10 < value10
    [] operator = ">=" -> ~a.nan /\ a.x10 >= value10
    [] operator = "<=" -> ~a.nan /\ a.x10 <= value10
    [] OTHER -> TRUE

\* checkCondition that treats a failed read as "condition not met"
checkConditionFailClosed(condition, result) ==
  IF result.kind = "throw" THEN FALSE
  ELSE IF ~result.success \/ ~Has(result, "status") THEN FALSE
  ELSE LET sensorValue == sensorValueOf(condition, result.status)
       IN  IF sensorValue.null THEN TRUE
           ELSE Compare(condition.operator, sensorValue.num, condition.value)

\* checkCondition(condition), given what getDeviceStatus did:
\* result.kind is "throw", or "return" with fields success and (optionally) status
checkCondition(condition, result) ==
  IF result.kind = "throw" THEN TRUE
  ELSE IF ~result.success \/ ~Has(result, "status") THEN TRUE
  ELSE LET sensorValue == sensorValueOf(condition, result.status)
       IN  IF sensorValue.null THEN TRUE
           ELSE Compare(condition.operator, sensorValue.num, condition.value)

\* ------------------------------------------------------------ schedule store
\* getAllEnabledSchedules(): Object.values over users, then over each user's
\* schedules, keeping those whose enabled flag is truthy
\* getAllEnabledSchedules without the enabled test
enabledOfUnfiltered(schedules) == schedules

RECURSIVE enabledOf(_)
enabledOf(schedules) ==
  IF schedules = <<>> THEN <<>>
  ELSE (IF Head(schedules).enabled THEN <<Head(schedules)>> ELSE <<>>) \o enabledOf(Tail(schedules))

RECURSIVE getAllEnabledSchedules(_)
getAllEnabledSchedules(users) ==
  IF users = <<>> THEN <<>>
  ELSE (IF Has(Head(users), "schedules") THEN enabledOf(Head(users).schedules) ELSE <<>>)
       \o getAllEnabledSchedules(Tail(users))

\* ------------------------------------------------------------ slot matcher
\* a match that also accepts a slot whose minute has just passed
dayAndTimeMatchTolerant(slot, schedule, t) ==
  /\ Includes(schedule.daysOfWeek, getCurrentDay(t))
  /\ slot.startTime \in {getCurrentTime(t), getCurrentTime(t - MinuteMs)}

\* shouldExecuteSlot(slot, schedule) evaluated at instant t with dedup map led
dayAndTimeMatch(slot, schedule, t) ==
  /\ Includes(schedule.daysOfWeek, getCurrentDay(t))
  /\ slot.startTime = getCurrentTime(t)

\* the dedup window taken as 2 * 60 milliseconds
recentlyExecutedSeconds(slot, schedule, t, led) ==
  LET key == executionKey(schedule, slot)
  IN  /\ key \in DOMAIN led
      /\ led[key] # 0
      /\ t - led[key] < 2 * 60

recentlyExecuted(slot, schedule, t, led) ==
  LET key == executionKey(schedule, slot)
  IN  /\ key \in DOMAIN led
      /\ led[key] # 0
      /\ t - led[key] < DedupWindowMs

\* a due check that does not look at the dedup map
shouldExecuteSlotUndeduped(slot, schedule, t, led) ==
  dayAndTimeMatch(slot, schedule, t)

shouldExecuteSlot(slot, schedule, t, led) ==
  /\ dayAndTimeMatch(slot, schedule, t)
  /\ ~recentlyExecuted(slot, schedule, t, led)

\* schedule.daysOfWeek.includes throws a TypeError when the list is not stored
shouldExecuteSlotThrows(schedule) == ~Has(schedule, "daysOfWeek")

\* schedule.timeSlots || []
timeSlotsOf(schedule) == IF Has(schedule, "timeSlots") THEN schedule.timeSlots ELSE <<>>

\* ------------------------------------------------------------ executeTimeSlot
categoryOf(action) == IF Has(action, "deviceCategory") THEN action.deviceCategory ELSE NoCategory

\* convertToTuyaCommands(action.command, ...) reads command.type: a TypeError
\* when the action stores no command; the catch of the iteration takes it
convertToTuyaCommandsThrows(action) == ~Has(action, "command")

\* the for-loop with `return` in place of `continue` after an empty translation
RECURSIVE runActionsReturnOnEmpty(_, _, _, _)
runActionsReturnOnEmpty(actions, i, phase, lg) ==
  IF i > Len(actions) THEN [pc |-> "ret", ai |-> i, log |-> lg]
  ELSE IF phase = "top" /\ Has(actions[i], "condition") THEN [pc |-> "guard", ai |-> i, log |-> lg]
  ELSE IF convertToTuyaCommandsThrows(actions[i])
    THEN runActionsReturnOnEmpty(actions, i + 1, "top", Append(lg, [e |-> "error", ai |-> i]))
  ELSE LET tuyaCommands == convertToTuyaCommands(actions[i].command, categoryOf(actions[i]))
       IN  IF Len(tuyaCommands) = 0
             THEN [pc |-> "ret", ai |-> i, log |-> Append(lg, [e |-> "empty", ai |-> i])]
             ELSE [pc |-> "send", ai |-> i,
                   log |-> Append(lg, [e |-> "send", ai |-> i, deviceId |-> actions[i].deviceId,
                                       commands |-> tuyaCommands])]

\* The for-loop of executeTimeSlot from iteration i up to its next await.
\* phase "top" is the start of the iteration, "body" the point after the
\* condition was found met.  The result tells where the run waits next:
\* "guard" (await checkCondition), "send" (await sendCommand) or "ret"
\* (the loop is over and executeTimeSlot returns).
\* an action loop that calls sendCommand without awaiting it
RECURSIVE runActionsNoAwait(_, _, _, _)
runActionsNoAwait(actions, i, phase, lg) ==
  IF i > Len(actions) THEN [pc |-> "ret", ai |-> i, log |-> lg]
  ELSE IF phase = "top" /\ Has(actions[i], "condition") THEN [pc |-> "guard", ai |-> i, log |-> lg]
  ELSE IF convertToTuyaCommandsThrows(actions[i])
    THEN runActionsNoAwait(actions, i + 1, "top", Append(lg, [e |-> "error", ai |-> i]))
  ELSE LET tuyaCommands == convertToTuyaCommands(actions[i].command, categoryOf(actions[i]))
       IN  IF Len(tuyaCommands) = 0
             THEN runActionsNoAwait(actions, i + 1, "top", Append(lg, [e |-> "empty", ai |-> i]))
             ELSE runActionsNoAwait(actions, i + 1, "top",
                    Append(lg, [e |-> "send", ai |-> i, deviceId |-> actions[i].deviceId,
                                commands |-> tuyaCommands]))

RECURSIVE runActions(_, _, _, _)
runActions(actions, i, phase, lg) ==
  IF i > Len(actions) THEN [pc |-> "ret", ai |-> i, log |-> lg]
  ELSE IF phase = "top" /\ Has(actions[i], "condition") THEN [pc |-> "guard", ai |-> i, log |-> lg]
  ELSE IF convertToTuyaCommandsThrows(actions[i])
    THEN runActions(actions, i + 1, "top", Append(lg, [e |-> "error", ai |-> i]))
  ELSE LET tuyaCommands == convertToTuyaCommands(actions[i].command, categoryOf(actions[i]))
       IN  IF Len(tuyaCommands) = 0
             THEN runActions(actions, i + 1, "top", Append(lg, [e |-> "empty", ai |-> i]))
             ELSE [pc |-> "send", ai |-> i,
                   log |-> Append(lg, [e |-> "send", ai |-> i, deviceId |-> actions[i].deviceId,
                                       commands |-> tuyaCommands])]

\* executeTimeSlot that leaves the dedup entry to be written after the loop
executeTimeSlotRecordLast(schedule, slot, t, led, lg) ==
  LET key == executionKey(schedule, slot)
      lg1 == Append(lg, [e |-> "fire", userId |-> schedule.userId, id |-> schedule.id,
                         slot |-> slot.id, key |-> key, at |-> t])
  IN  IF ~Has(slot, "actions")
        THEN [pc |-> "threw", ai |-> 0, log |-> lg1, led |-> led]
        ELSE LET r == runActions(slot.actions, 1, "top", lg1)
             IN  [pc |-> r.pc, ai |-> r.ai, log |-> r.log,
                  led |-> IF r.pc = "ret" THEN (key :> t) @@ led ELSE led]

\* executeTimeSlot(schedule, slot) up to its first await: the dedup entry is
\* written first; a slot without an action list makes the for-of throw
executeTimeSlot(schedule, slot, t, led, lg) ==
  LET key == executionKey(schedule, slot)
      led1 == (key :> t) @@ led
      lg1 == Append(lg, [e |-> "fire", userId |-> schedule.userId, id |-> schedule.id,
                         slot |-> slot.id, key |-> key, at |-> t])
  IN  IF ~Has(slot, "actions")
        THEN [pc |-> "threw", ai |-> 0, log |-> lg1, led |-> led1]
        ELSE LET r == runActions(slot.actions, 1, "top", lg1)
             IN  [pc |-> r.pc, ai |-> r.ai, log |-> r.log, led |-> led1]

\* ------------------------------------------------------------ checkSchedules
\* the loops with a due check that renews the dedup entry of a slot it suppresses
RECURSIVE scanRenewing(_, _, _, _, _, _)
scanRenewing(snap, si, ki, t, led, chk) ==
  IF si > Len(snap)
    THEN [pc |-> "done", si |-> si, ki |-> ki, ai |-> 0, log |-> <<>>, led |-> led, out |-> "ok", chk |-> chk]
  ELSE IF ki > Len(timeSlotsOf(snap[si])) THEN scanRenewing(snap, si + 1, 1, t, led, chk)
  ELSE IF shouldExecuteSlotThrows(snap[si])
    THEN [pc |-> "done", si |-> si, ki |-> ki, ai |-> 0, log |-> <<>>, led |-> led, out |-> "TypeError", chk |-> chk]
  ELSE LET schedule == snap[si]
           slot == timeSlotsOf(schedule)[ki]
           check(outcome) == [key |-> executionKey(schedule, slot), at |-> t, outcome |-> outcome]
       IN  IF shouldExecuteSlot(slot, schedule, t, led)
             THEN LET r == executeTimeSlot(schedule, slot, t, led, <<>>)
                  IN  IF r.pc = "threw"
                        THEN [pc |-> "done", si |-> si, ki |-> ki, ai |-> 0, log |-> r.log,
                              led |-> r.led, out |-> "TypeError", chk |-> chk \cup {check("fired")}]
                        ELSE [pc |-> r.pc, si |-> si, ki |-> ki, ai |-> r.ai, log |-> r.log,
                              led |-> r.led, out |-> "", chk |-> chk \cup {check("fired")}]
           ELSE IF dayAndTimeMatch(slot, schedule, t)
             THEN scanRenewing(snap, si, ki + 1, t, (executionKey(schedule, slot) :> t) @@ led,
                               chk \cup {check("suppressed")})
           ELSE scanRenewing(snap, si, ki + 1, t, led, chk \cup {check("unmatched")})

\* The nested for-loops of checkSchedules from slot (si, ki) up to the next await.
RECURSIVE scan(_, _, _, _, _, _)
scan(snap, si, ki, t, led, chk) ==
  IF si > Len(snap)
    THEN [pc |-> "done", si |-> si, ki |-> ki, ai |-> 0, log |-> <<>>, led |-> led, out |-> "ok", chk |-> chk]
  ELSE IF ki > Len(timeSlotsOf(snap[si])) THEN scan(snap, si + 1, 1, t, led, chk)
  ELSE IF shouldExecuteSlotThrows(snap[si])
    THEN [pc |-> "done", si |-> si, ki |-> ki, ai |-> 0, log |-> <<>>, led |-> led, out |-> "TypeError", chk |-> chk]
  ELSE LET schedule == snap[si]
           slot == timeSlotsOf(schedule)[ki]
           check(outcome) == [key |-> executionKey(schedule, slot), at |-> t, outcome |-> outcome]
       IN  IF shouldExecuteSlot(slot, schedule, t, led)
             THEN LET r == executeTimeSlot(schedule, slot, t, led, <<>>)
                  IN  IF r.pc = "threw"
                        THEN [pc |-> "done", si |-> si, ki |-> ki, ai |-> 0, log |-> r.log,
                              led |-> r.led, out |-> "TypeError", chk |-> chk \cup {check("fired")}]
                        ELSE [pc |-> r.pc, si |-> si, ki |-> ki, ai |-> r.ai, log |-> r.log,
                              led |-> r.led, out |-> "", chk |-> chk \cup {check("fired")}]
           ELSE scan(snap, si, ki + 1, t, led,
                     chk \cup {check(IF dayAndTimeMatch(slot, schedule, t) THEN "suppressed" ELSE "unmatched")})

\* ------------------------------------------------------------ triggerTimeSlot
\* index of the first element of seq whose id is id, 0 if there is none (Array.find)
RECURSIVE findIndex(_, _, _)
findIndex(seq, id, i) ==
  IF i > Len(seq) THEN 0 ELSE IF seq[i].id = id THEN i ELSE findIndex(seq, id, i + 1)

\* triggerTimeSlot that asks shouldExecuteSlot before it executes the slot
triggerChecked(snap, scheduleId, slotId, t, led, lg) ==
  LET si == findIndex(snap, scheduleId, 1)
      ki == IF si = 0 THEN 0 ELSE findIndex(timeSlotsOf(snap[si]), slotId, 1)
  IN  IF si = 0
        THEN [pc |-> "done", si |-> 0, ki |-> 0, ai |-> 0, log |-> lg, led |-> led, out |-> "Schedule not found", chk |-> {}]
      ELSE IF ki = 0
        THEN [pc |-> "done", si |-> si, ki |-> 0, ai |-> 0, log |-> lg, led |-> led, out |-> "Time slot not found", chk |-> {}]
      ELSE IF ~shouldExecuteSlot(timeSlotsOf(snap[si])[ki], snap[si], t, led)
        THEN [pc |-> "done", si |-> si, ki |-> ki, ai |-> 0, log |-> lg, led |-> led, out |-> "ok", chk |-> {}]
      ELSE LET r == executeTimeSlot(snap[si], timeSlotsOf(snap[si])[ki], t, led, lg)
           IN  IF r.pc = "threw"
                 THEN [pc |-> "done", si |-> si, ki |-> ki, ai |-> 0, log |-> r.log, led |-> r.led, out |-> "TypeError", chk |-> {}]
                 ELSE [pc |-> r.pc, si |-> si, ki |-> ki, ai |-> r.ai, log |-> r.log, led |-> r.led, out |-> "", chk |-> {}]

\* triggerTimeSlot(scheduleId, slotId) from the return of the store read up to the next await
trigger(snap, scheduleId, slotId, t, led, lg) ==
  LET si == findIndex(snap, scheduleId, 1)
      ki == IF si = 0 THEN 0 ELSE findIndex(timeSlotsOf(snap[si]), slotId, 1)
  IN  IF si = 0
        THEN [pc |-> "done", si |-> 0, ki |-> 0, ai |-> 0, log |-> lg, led |-> led, out |-> "Schedule not found", chk |-> {}]
      ELSE IF ki = 0
        THEN [pc |-> "done", si |-> si, ki |-> 0, ai |-> 0, log |-> lg, led |-> led, out |-> "Time slot not found", chk |-> {}]
      ELSE LET r == executeTimeSlot(snap[si], timeSlotsOf(snap[si])[ki], t, led, lg)
           IN  IF r.pc = "threw"
                 THEN [pc |-> "done", si |-> si, ki |-> ki, ai |-> 0, log |-> r.log, led |-> r.led, out |-> "TypeError", chk |-> {}]
                 ELSE [pc |-> r.pc, si |-> si, ki |-> ki, ai |-> r.ai, log |-> r.log, led |-> r.led, out |-> "", chk |-> {}]

\* ------------------------------------------------------------ initial stores
Cond(metric, operator, value10) ==
  [sensorDeviceId |-> "sensor", sensorDeviceName |-> "Sensor", metric |-> metric,
   operator |-> operator, value |-> value10]

OnOffAction(deviceId, on) ==
  [deviceId |-> deviceId, deviceName |-> deviceId, command |-> [type |-> "OnOff", on |-> on]]

\* one schedule active on monday, one slot at 07:00, one OnOff(true) action for device D
MorningSchedule ==
  [id |-> <<"s", "1">>, userId |-> "u1", enabled |-> TRUE, daysOfWeek |-> <<"monday">>,
   timeSlots |-> <<[id |-> <<"a">>, startTime |-> HHMM(0, 7, 0, 0),
                    actions |-> <<OnOffAction("D", TRUE)>>]>>]

\* a slot of three actions: a guarded AC switch, a thermostat command that
\* translates to nothing, and an unguarded light switch
ClimateSchedule ==
  [id |-> <<"s", "2">>, userId |-> "u1", enabled |-> TRUE, daysOfWeek |-> <<"monday", "friday">>,
   timeSlots |-> <<[id |-> <<"b">>, startTime |-> HHMM(0, 7, 0, 0),
                    actions |-> <<[deviceId |-> "AC", deviceName |-> "AC", deviceCategory |-> "kt",
                                   command |-> [type |-> "OnOff", on |-> TRUE],
                                   condition |-> Cond("temperature", ">", 280)],
                                  [deviceId |-> "AC", deviceName |-> "AC", deviceCategory |-> "kt",
                                   command |-> [type |-> "Thermostat", mode |-> "off"]],
                                  [deviceId |-> "L", deviceName |-> "Lamp", deviceCategory |-> "dj",
                                   command |-> [type |-> "OnOff", on |-> FALSE]]>>]>>]

\* a schedule the user has switched off
DisabledSchedule ==
  [id |-> <<"s", "3">>, userId |-> "u2", enabled |-> FALSE, daysOfWeek |-> <<"monday">>,
   timeSlots |-> <<[id |-> <<"c">>, startTime |-> HHMM(0, 7, 0, 0),
                    actions |-> <<OnOffAction("F", TRUE)>>]>>]

\* a schedule whose list of active weekdays is empty
EmptyDaysSchedule ==
  [id |-> <<"s", "6">>, userId |-> "u1", enabled |-> TRUE, daysOfWeek |-> <<>>,
   timeSlots |-> <<[id |-> <<"e">>, startTime |-> HHMM(0, 7, 0, 0),
                    actions |-> <<OnOffAction("E", TRUE)>>]>>]

\* slots one minute before and after 07:00, one at midnight and one whose
\* start time was stored as "7:00"
MinuteSchedule ==
  [id |-> <<"s", "7">>, userId |-> "u1", enabled |-> TRUE, daysOfWeek |-> <<"monday", "friday">>,
   timeSlots |-> <<[id |-> <<"g">>, startTime |-> HHMM(0, 6, 5, 9),
                    actions |-> <<OnOffAction("G", TRUE)>>],
                   [id |-> <<"h">>, startTime |-> HHMM(0, 7, 0, 1),
                    actions |-> <<OnOffAction("H", FALSE)>>],
                   [id |-> <<"i">>, startTime |-> HHMM(0, 0, 0, 0),
                    actions |-> <<OnOffAction("I", TRUE)>>],
                   [id |-> <<"j">>, startTime |-> <<7, 10, 0, 0>>,
                    actions |-> <<OnOffAction("J", TRUE)>>]>>]

\* stored documents that lack fields the scheduler reads without a test:
\* an action without command, a slot without actions, a schedule without daysOfWeek
PartialSchedule ==
  [id |-> <<"s", "4">>, userId |-> "u1", enabled |-> TRUE, daysOfWeek |-> <<"monday">>,
   timeSlots |-> <<[id |-> <<"d">>, startTime |-> HHMM(0, 7, 0, 0),
                    actions |-> <<[deviceId |-> "X", deviceName |-> "X"],
                                  OnOffAction("Y", TRUE)>>],
                   [id |-> <<"f">>, startTime |-> HHMM(0, 7, 0, 1)]>>]

NoDaysSchedule ==
  [id |-> <<"s", "5">>, userId |-> "u2", enabled |-> TRUE,
   timeSlots |-> <<[id |-> <<"k">>, startTime |-> HHMM(0, 7, 0, 0),
                    actions |-> <<OnOffAction("K", TRUE)>>]>>]

\* two slots at 07:00 in one schedule, and a slot with the id of the first
\* at 07:00 in a schedule of another user
TwinSchedule ==
  [id |-> <<"s", "8">>, userId |-> "u1", enabled |-> TRUE, daysOfWeek |-> <<"monday">>,
   timeSlots |-> <<[id |-> <<"m">>, startTime |-> HHMM(0, 7, 0, 0),
                    actions |-> <<OnOffAction("M", TRUE)>>],
                   [id |-> <<"n">>, startTime |-> HHMM(0, 7, 0, 0),
                    actions |-> <<OnOffAction("N", TRUE)>>]>>]

OtherTwinSchedule ==
  [id |-> <<"s", "9">>, userId |-> "u2", enabled |-> TRUE, daysOfWeek |-> <<"monday">>,
   timeSlots |-> <<[id |-> <<"m">>, startTime |-> HHMM(0, 7, 0, 0),
                    actions |-> <<OnOffAction("O", FALSE)>>]>>]

MorningStore == <<[userId |-> "u1", schedules |-> <<MorningSchedule>>]>>

ClimateStore ==
  <<[userId |-> "u1", schedules |-> <<ClimateSchedule>>],
    [userId |-> "u2", schedules |-> <<DisabledSchedule>>]>>

Stores == {MorningStore, ClimateStore}

WeekStore == <<[userId |-> "u1", schedules |-> <<EmptyDaysSchedule, MinuteSchedule>>]>>

PartialStore ==
  <<[userId |-> "u1", schedules |-> <<PartialSchedule>>],
    [userId |-> "u2", schedules |-> <<NoDaysSchedule>>]>>

TwinStore ==
  <<[userId |-> "u1", schedules |-> <<TwinSchedule>>],
    [userId |-> "u2", schedules |-> <<OtherTwinSchedule>>]>>

\* a schedule stored without its weekday list, ahead of a well-formed
\* schedule of another user
UnsetDaysSchedule ==
  [id |-> <<"s", "0">>, userId |-> "u1", enabled |-> TRUE,
   timeSlots |-> <<[id |-> <<"q">>, startTime |-> HHMM(0, 7, 0, 0),
                    actions |-> <<OnOffAction("Q", TRUE)>>]>>]

UnsetDaysStore ==
  <<[userId |-> "u1", schedules |-> <<UnsetDaysSchedule>>],
    [userId |-> "u2", schedules |-> <<OtherTwinSchedule>>]>>

TickStores == {ClimateStore, WeekStore, PartialStore, TwinStore, UnsetDaysStore}

\* a schedule of user u2 that got the id of a schedule of user u1
\* (`schedule-${Date.now()}` of two requests served in the same millisecond)
SharedIdSchedule ==
  [id |-> <<"s", "1">>, userId |-> "u2", enabled |-> TRUE, daysOfWeek |-> <<"monday">>,
   timeSlots |-> <<[id |-> <<"z">>, startTime |-> HHMM(0, 7, 0, 0),
                    actions |-> <<OnOffAction("Z", TRUE)>>]>>]

SharedIdStore ==
  <<[userId |-> "u1", schedules |-> <<MorningSchedule>>],
    [userId |-> "u2", schedules |-> <<SharedIdSchedule>>]>>

RouteStores == {ClimateStore, PartialStore, SharedIdStore}

StartTimes == { At(1, 6, 59, 30) }

\* start instants of the runs that follow the timer loop alone: a monday, a
\* tuesday and a friday morning, and the last half minute of a sunday
TickStartTimes == { At(1, 6, 59, 30), At(2, 6, 59, 30), At(5, 6, 59, 30), At(0, 23, 59, 30) }

\* the instant startScheduler() was called, given the current instant
startedAt(t) ==
  CHOOSE t0 \in StartTimes \cup TickStartTimes :
    t0 <= t /\ \A t1 \in StartTimes \cup TickStartTimes : t1 <= t => t1 <= t0

\* what getDeviceStatus can do while a guard is evaluated
GuardResults ==
  { [kind |-> "throw"],
    [kind |-> "return", success |-> FALSE],
    [kind |-> "return", success |-> TRUE, status |-> [va_temperature |-> N(300)]],
    [kind |-> "return", success |-> TRUE, status |-> [va_temperature |-> N(250)]] }

\* what sendCommand can do: {success: true}, {success: false, error} or a thrown error
SendResults ==
  { [kind |-> "return", success |-> TRUE], [kind |-> "return", success |-> FALSE], [kind |-> "throw"] }

\* ------------------------------------------------------------ state machine
\* what the latest settled await of an executeTimeSlot call delivered
NoIO == [op |-> "none"]

\* an invocation that has not read the store yet; log holds the events of the
\* executeTimeSlot call in progress and io what its latest await delivered
NewRun(kind, args) ==
  [kind |-> kind, pc |-> "load", args |-> args, snap |-> <<>>,
   si |-> 0, ki |-> 0, ai |-> 0, log |-> <<>>, io |-> NoIO, out |-> "", started |-> 0]

\* a checkSchedules invocation started at instant t
NewTick(t) == [NewRun("tick", <<>>) EXCEPT !.started = t]

\* an invocation that has returned
Returned(run, out) ==
  [NewRun(run.kind, run.args) EXCEPT !.pc = "done", !.out = out, !.started = run.started]

NoCall == [condition |-> Cond("temperature", ">", 0), result |-> [kind |-> "throw"]]

NumRuns(kind) == Cardinality({p \in 1..Len(runs) : runs[p].kind = kind})

BagAdd(bag, x) == IF x \in DOMAIN bag THEN [bag EXCEPT ![x] = @ + 1] ELSE (x :> 1) @@ bag

RECURSIVE BagAddAll(_, _)
BagAddAll(bag, xs) == IF xs = <<>> THEN bag ELSE BagAddAll(BagAdd(bag, Head(xs)), Tail(xs))

\* the events e of a log, in order
RECURSIVE eventsOf(_, _)
eventsOf(lg, e) ==
  IF lg = <<>> THEN <<>>
  ELSE (IF Head(lg).e = e THEN <<Head(lg)>> ELSE <<>>) \o eventsOf(Tail(lg), e)

\* startScheduler(): the first checkSchedules call runs up to its store read
\* and the interval timer is armed
Init ==
  /\ now \in StartTimes
  /\ store \in Stores
  /\ lastExecutionTimes = <<>>
  /\ timerNext = now + IntervalMs
  /\ runs = <<NewTick(now)>>
  /\ fired = <<>>
  /\ checked = {}
  /\ edits = 0
  /\ cIn = NoCall
  /\ cOut = "unset"

\* Continue in a checkSchedules without its try/catch: an exception that ends
\* the run is an unhandled rejection, and every invocation ends with the process
ContinueUncaught(p, r, before, snap, io) ==
  LET new == SubSeq(r.log, Len(before) + 1, Len(r.log))
      fires == eventsOf(new, "fire")
  IN  /\ runs' = IF r.pc = "done" /\ r.out # "ok"
                    THEN [q \in 1..Len(runs) |-> Returned(runs[q], r.out)]
                    ELSE [runs EXCEPT ![p] =
                            IF r.pc = "done" THEN Returned(@, r.out)
                            ELSE [kind |-> @.kind, pc |-> r.pc, args |-> @.args,
                                  snap |-> snap, si |-> r.si, ki |-> r.ki, ai |-> r.ai,
                                  log |-> r.log, io |-> io, out |-> r.out, started |-> @.started]]
      /\ lastExecutionTimes' = r.led
      /\ checked' = checked \cup r.chk
      /\ fired' = BagAddAll(fired, [i \in 1..Len(fires) |->
                     [key |-> fires[i].key, at |-> fires[i].at, kind |-> runs[p].kind]])

\* The run p continues with r, what scan / trigger / runActions computed from
\* the log `before`; the history variable takes up the new firings.
Continue(p, r, before, snap, io) ==
  LET new == SubSeq(r.log, Len(before) + 1, Len(r.log))
      fires == eventsOf(new, "fire")
  IN  /\ runs' = [runs EXCEPT ![p] =
                    IF r.pc = "done" THEN Returned(@, r.out)
                    ELSE [kind |-> @.kind, pc |-> r.pc, args |-> @.args,
                          snap |-> snap, si |-> r.si, ki |-> r.ki, ai |-> r.ai,
                          log |-> r.log, io |-> io, out |-> r.out, started |-> @.started]]
      /\ lastExecutionTimes' = r.led
      /\ checked' = checked \cup r.chk
      /\ fired' = BagAddAll(fired, [i \in 1..Len(fires) |->
                     [key |-> fires[i].key, at |-> fires[i].at, kind |-> runs[p].kind]])

currentActions(run) == timeSlotsOf(run.snap[run.si])[run.ki].actions

\* the wall clock advances
Advance ==
  /\ now + ClockStepMs <= startedAt(now) + MaxElapsed * ClockStepMs
  /\ now' = now + ClockStepMs
  /\ UNCHANGED <<store, lastExecutionTimes, timerNext, runs, fired, checked, edits, cIn, cOut>>

\* a timer that keeps its expiries on the original grid, so that a late
\* callback is followed by the expiries that were missed
TimerFireCatchUp ==
  /\ now >= timerNext
  /\ NumRuns("tick") < MaxTicks
  /\ runs' = Append(runs, NewTick(now))
  /\ timerNext' = timerNext + IntervalMs
  /\ UNCHANGED <<now, store, lastExecutionTimes, fired, checked, edits, cIn, cOut>>

\* setInterval callback: checkSchedules() is called and not awaited
TimerFire ==
  /\ now >= timerNext
  /\ NumRuns("tick") < MaxTicks
  /\ runs' = Append(runs, NewTick(now))
  /\ timerNext' = now + IntervalMs
  /\ UNCHANGED <<now, store, lastExecutionTimes, fired, checked, edits, cIn, cOut>>

\* getSchedule(userId, id): the node users/<userId>/schedules/<id>, if it exists
getSchedule(users, userId, id) ==
  LET hits == { h \in (1..Len(users)) \X (1..2) :
                  /\ users[h[1]].userId = userId
                  /\ h[2] <= Len(users[h[1]].schedules)
                  /\ users[h[1]].schedules[h[2]].id = id }
  IN  IF hits = {} THEN <<>>
      ELSE LET h == CHOOSE x \in hits : TRUE IN <<users[h[1]].schedules[h[2]]>>

\* a request body without slotId
NoSlotId == <<>>

\* slotId || schedule.timeSlots?.[0]?.id
targetSlotId(schedule, slotId) ==
  IF slotId # NoSlotId THEN slotId
  ELSE IF timeSlotsOf(schedule) = <<>> THEN NoSlotId
  ELSE timeSlotsOf(schedule)[1].id

\* POST /api/schedules/:id/test by user userId, up to the store read of
\* triggerTimeSlot; the 404 and 400 answers change nothing
TestRoute(userId, id, slotId) ==
  /\ NumRuns("manual") < MaxManual
  /\ LET schedule == getSchedule(store, userId, id)
     IN  /\ schedule # <<>>
         /\ targetSlotId(schedule[1], slotId) # NoSlotId
         /\ runs' = Append(runs, NewRun("manual", <<id, targetSlotId(schedule[1], slotId), userId>>))
  /\ UNCHANGED <<now, store, lastExecutionTimes, timerNext, fired, checked, edits, cIn, cOut>>

\* triggerTimeSlot(scheduleId, slotId) is called and runs up to its store read
Trigger(scheduleId, slotId) ==
  /\ NumRuns("manual") < MaxManual
  /\ runs' = Append(runs, NewRun("manual", <<scheduleId, slotId>>))
  /\ UNCHANGED <<now, store, lastExecutionTimes, timerNext, fired, checked, edits, cIn, cOut>>

\* await getAllEnabledSchedules() resolves
StoreReturn(p) ==
  /\ runs[p].pc = "load"
  /\ LET snap == getAllEnabledSchedules(store)
         r == IF runs[p].kind = "tick"
                THEN scan(snap, 1, 1, now, lastExecutionTimes, {})
                ELSE trigger(snap, runs[p].args[1], runs[p].args[2], now, lastExecutionTimes, <<>>)
     IN  Continue(p, r, <<>>, snap, NoIO)
  /\ UNCHANGED <<now, store, timerNext, edits, cIn, cOut>>

\* the rejection escapes checkSchedules and ends the process: no run goes
\* on and the timer never expires again
StoreThrowEndsLoop(p) ==
  /\ runs[p].pc = "load"
  /\ runs' = [q \in 1..Len(runs) |-> Returned(runs[q], "store read failed")]
  /\ timerNext' = timerNext + 7 * DayMs
  /\ UNCHANGED <<now, store, lastExecutionTimes, fired, checked, edits, cIn, cOut>>

\* await getAllEnabledSchedules() rejects: the catch block of the caller runs
StoreThrow(p) ==
  /\ runs[p].pc = "load"
  /\ runs' = [runs EXCEPT ![p] = Returned(@, "store read failed")]
  /\ UNCHANGED <<now, store, lastExecutionTimes, timerNext, fired, checked, edits, cIn, cOut>>

\* an executeTimeSlot that sends the commands whatever the condition gave
GuardReturnUngated(p, result) ==
  /\ runs[p].pc = "guard"
  /\ LET run == runs[p]
         actions == currentActions(run)
         conditionMet == checkCondition(actions[run.ai].condition, result)
         lg == Append(run.log, [e |-> "guard", ai |-> run.ai, met |-> conditionMet])
         r == runActions(actions, run.ai, "body", lg)
     IN  Continue(p, [pc |-> r.pc, si |-> run.si, ki |-> run.ki, ai |-> r.ai, log |-> r.log,
                      led |-> lastExecutionTimes, out |-> "", chk |-> {}], lg, run.snap,
                  [op |-> "getDeviceStatus", ai |-> run.ai, result |-> result])
  /\ UNCHANGED <<now, store, timerNext, edits, cIn, cOut>>

\* await checkCondition(action.condition) resolves, getDeviceStatus having done `result`
GuardReturn(p, result) ==
  /\ runs[p].pc = "guard"
  /\ LET run == runs[p]
         actions == currentActions(run)
         conditionMet == checkCondition(actions[run.ai].condition, result)
         lg == Append(run.log, [e |-> "guard", ai |-> run.ai, met |-> conditionMet])
         r == IF conditionMet THEN runActions(actions, run.ai, "body", lg)
                              ELSE runActions(actions, run.ai + 1, "top", lg)
     IN  Continue(p, [pc |-> r.pc, si |-> run.si, ki |-> run.ki, ai |-> r.ai, log |-> r.log,
                      led |-> lastExecutionTimes, out |-> "", chk |-> {}], lg, run.snap,
                  [op |-> "getDeviceStatus", ai |-> run.ai, result |-> result])
  /\ UNCHANGED <<now, store, timerNext, edits, cIn, cOut>>

\* an executeTimeSlot that sends the commands of an action once more when
\* the first send did not succeed
SendReturnRetrying(p, result) ==
  /\ runs[p].pc = "send"
  /\ LET run == runs[p]
         failed == result.kind = "throw" \/ ~result.success
         sent == Cardinality({j \in 1..Len(run.log) : run.log[j].e = "send" /\ run.log[j].ai = run.ai})
         r == IF failed /\ sent < 2
                THEN runActions(currentActions(run), run.ai, "body", run.log)
                ELSE runActions(currentActions(run), run.ai + 1, "top", run.log)
     IN  Continue(p, [pc |-> r.pc, si |-> run.si, ki |-> run.ki, ai |-> r.ai, log |-> r.log,
                      led |-> lastExecutionTimes, out |-> "", chk |-> {}], run.log, run.snap,
                  [op |-> "sendCommand", ai |-> run.ai, result |-> result])
  /\ UNCHANGED <<now, store, timerNext, edits, cIn, cOut>>

\* await sendCommand(...) settles with `result`
SendReturn(p, result) ==
  /\ runs[p].pc = "send"
  /\ LET run == runs[p]
         r == runActions(currentActions(run), run.ai + 1, "top", run.log)
     IN  Continue(p, [pc |-> r.pc, si |-> run.si, ki |-> run.ki, ai |-> r.ai, log |-> r.log,
                      led |-> lastExecutionTimes, out |-> "", chk |-> {}], run.log, run.snap,
                  [op |-> "sendCommand", ai |-> run.ai, result |-> result])
  /\ UNCHANGED <<now, store, timerNext, edits, cIn, cOut>>

\* a checkSchedules that reads the enabled schedules again after each slot
ResumeRereading(p) ==
  /\ runs[p].pc = "ret"
  /\ LET run == runs[p]
         snap == getAllEnabledSchedules(store)
         r == IF run.kind = "tick"
                THEN scan(snap, run.si, run.ki + 1, now, lastExecutionTimes, {})
                ELSE [pc |-> "done", si |-> run.si, ki |-> run.ki, ai |-> 0, log |-> <<>>,
                      led |-> lastExecutionTimes, out |-> "ok", chk |-> {}]
     IN  Continue(p, r, <<>>, snap, NoIO)
  /\ UNCHANGED <<now, store, timerNext, edits, cIn, cOut>>

\* await executeTimeSlot(schedule, slot) resolves in its caller
Resume(p) ==
  /\ runs[p].pc = "ret"
  /\ LET run == runs[p]
         r == IF run.kind = "tick"
                THEN scan(run.snap, run.si, run.ki + 1, now, lastExecutionTimes, {})
                ELSE [pc |-> "done", si |-> run.si, ki |-> run.ki, ai |-> 0, log |-> <<>>,
                      led |-> lastExecutionTimes, out |-> "ok", chk |-> {}]
     IN  Continue(p, r, <<>>, run.snap, NoIO)
  /\ UNCHANGED <<now, store, timerNext, edits, cIn, cOut>>

\* POST /api/schedules/:id/toggle on schedule j of user u
toggle(schedule) == [schedule EXCEPT !.enabled = ~@]

StoreEdit(u, j) ==
  /\ edits < MaxEdits
  /\ store' = [store EXCEPT ![u].schedules[j] = toggle(@)]
  /\ edits' = edits + 1
  /\ UNCHANGED <<now, lastExecutionTimes, timerNext, runs, fired, checked, cIn, cOut>>

TriggerIds == { <<<<"s", "1">>, <<"a">>>>, <<<<"s", "2">>, <<"b">>>>, <<<<"s", "3">>, <<"c">>>>,
                <<<<"s", "2">>, <<"a">>>> }

Next ==
  \/ Advance
  \/ TimerFire
  \/ \E a \in TriggerIds : Trigger(a[1], a[2])
  \/ \E p \in 1..Len(runs) : StoreReturn(p)
  \/ \E p \in 1..Len(runs) : StoreThrow(p)
  \/ \E p \in 1..Len(runs) : \E result \in GuardResults : GuardReturn(p, result)
  \/ \E p \in 1..Len(runs) : \E result \in SendResults : SendReturn(p, result)
  \/ \E p \in 1..Len(runs) : Resume(p)
  \/ \E u \in 1..Len(store) : \E j \in 1..Len(store[u].schedules) : StoreEdit(u, j)

Spec == Init /\ [][Next]_vars

\* ------------------------------------------------ the timer loop on its own
\* startScheduler() with no route handler running beside it
InitTicks ==
  /\ now \in TickStartTimes
  /\ store \in TickStores
  /\ lastExecutionTimes = <<>>
  /\ timerNext = now + IntervalMs
  /\ runs = <<NewTick(now)>>
  /\ fired = <<>>
  /\ checked = {}
  /\ edits = 0
  /\ cIn = NoCall
  /\ cOut = "unset"

\* what the event loop does by itself: timers and continuations of settled promises
LoopSteps ==
  \/ Advance
  \/ TimerFire
  \/ \E p \in 1..Len(runs) : StoreReturn(p)
  \/ \E p \in 1..Len(runs) : StoreThrow(p)
  \/ \E p \in 1..Len(runs) : Resume(p)

\* what depends on the vendor cloud answering a request
DeviceSteps ==
  \/ \E p \in 1..Len(runs) : \E result \in GuardResults : GuardReturn(p, result)
  \/ \E p \in 1..Len(runs) : \E result \in SendResults : SendReturn(p, result)

NextTicks == LoopSteps \/ DeviceSteps

SpecTicks == InitTicks /\ [][NextTicks]_vars

\* ---- one sendCommand / getDeviceStatus call against the vendor cloud
\* the code the cloud answers with when the access token is not valid
TokenInvalid == 1010

\* what the cloud can answer to a device request, and a fetch that rejects
CloudAnswers ==
  { [kind |-> "return", success |-> TRUE],
    [kind |-> "return", success |-> FALSE, code |-> TokenInvalid],
    [kind |-> "return", success |-> FALSE, code |-> 1106],
    [kind |-> "throw"] }

RequestInputs ==
  [op : {"sendCommand", "getDeviceStatus"}, tokenCache : {"none", "expired", "valid"}]

\* tuyaRequest up to its first await: a token is fetched first when none is
\* cached or the cached one has expired
tuyaRequest(tokenCache, attempts) ==
  [pc |-> IF tokenCache # "valid" THEN "token" ELSE "fetch", tokenCache |-> tokenCache,
   attempts |-> attempts]

Settled(req, result) == [pc |-> "done", tokenCache |-> req.tokenCache, attempts |-> req.attempts, result |-> result]

InitRequest ==
  /\ now = At(1, 6, 59, 30)
  /\ store = MorningStore
  /\ lastExecutionTimes = <<>>
  /\ timerNext = now + IntervalMs
  /\ runs = <<NewTick(now)>>
  /\ fired = <<>>
  /\ checked = {}
  /\ edits = 0
  /\ cIn \in RequestInputs
  /\ cOut = [pc |-> "idle", tokenCache |-> cIn.tokenCache, attempts |-> 0]

\* sendCommand / getDeviceStatus calls tuyaRequest
Call ==
  /\ cOut.pc = "idle"
  /\ cOut' = tuyaRequest(cOut.tokenCache, 0)
  /\ UNCHANGED <<now, store, lastExecutionTimes, timerNext, runs, fired, checked, edits, cIn>>

\* await getToken() resolves: a token was cached, or none could be had
GetTokenReturn(ok) ==
  /\ cOut.pc = "token"
  /\ cOut' = IF ok THEN [cOut EXCEPT !.pc = "fetch", !.tokenCache = "valid"]
                   ELSE Settled(cOut, [kind |-> "return", success |-> FALSE])
  /\ UNCHANGED <<now, store, lastExecutionTimes, timerNext, runs, fired, checked, edits, cIn>>

\* await fetch(...) and response.json() resolve with `answer`: on code 1010
\* the token is dropped and tuyaRequest is called again; any other answer
\* is handed to the caller, which returns {success} to the scheduler
FetchReturn(answer) ==
  /\ cOut.pc = "fetch"
  /\ cOut' =
       IF answer.kind = "throw" THEN Settled(cOut, [kind |-> "throw"])
       ELSE IF ~answer.success /\ answer.code = TokenInvalid
         THEN tuyaRequest("none", IF cOut.attempts < MaxAttempts THEN cOut.attempts + 1 ELSE MaxAttempts)
       ELSE Settled(cOut, [kind |-> "return", success |-> answer.success])
  /\ UNCHANGED <<now, store, lastExecutionTimes, timerNext, runs, fired, checked, edits, cIn>>

NextRequest ==
  \/ Call
  \/ \E ok \in BOOLEAN : GetTokenReturn(ok)
  \/ \E answer \in CloudAnswers : FetchReturn(answer)

\* the cloud answers every request that was issued
SpecRequest == InitRequest /\ [][NextRequest]_vars /\ WF_vars(NextRequest)

\* ---- the manual test route beside the timer loop
Callers == {"u1", "u2"}
RouteScheduleIds == { <<"s", "1">>, <<"s", "2">>, <<"s", "3">>, <<"s", "4">>, <<"s", "5">> }
RouteSlotIds == { NoSlotId, <<"a">>, <<"b">>, <<"c">>, <<"d">>, <<"f">>, <<"z">> }

InitRoute ==
  /\ now \in StartTimes
  /\ store \in RouteStores
  /\ lastExecutionTimes = <<>>
  /\ timerNext = now + IntervalMs
  /\ runs = <<NewTick(now)>>
  /\ fired = <<>>
  /\ checked = {}
  /\ edits = 0
  /\ cIn = NoCall
  /\ cOut = "unset"

NextRoute ==
  \/ Advance
  \/ TimerFire
  \/ \E userId \in Callers : \E id \in RouteScheduleIds : \E slotId \in RouteSlotIds :
       TestRoute(userId, id, slotId)
  \/ \E p \in 1..Len(runs) : StoreReturn(p)
  \/ \E p \in 1..Len(runs) : StoreThrow(p)
  \/ \E p \in 1..Len(runs) : \E result \in GuardResults : GuardReturn(p, result)
  \/ \E p \in 1..Len(runs) : \E result \in SendResults : SendReturn(p, result)
  \/ \E p \in 1..Len(runs) : Resume(p)

SpecRoute == InitRoute /\ [][NextRoute]_vars

\* The event loop runs every timer that is due and every continuation that
\* is ready; tuyaRequest passes fetch no timeout and no abort signal, so
\* nothing obliges a pending request to settle.
SpecLive == InitTicks /\ [][NextTicks]_vars /\ WF_vars(LoopSteps)

\* ------------------------------------------- checkCondition on its own inputs
EmptyStatus == [code \in {} |-> N(0)]

CondStatuses ==
  { EmptyStatus,
    [va_temperature |-> N(250)], [va_temperature |-> N(280)], [va_temperature |-> N(281)],
    [va_temperature |-> S(<<"2", "8", "1">>)], [va_temperature |-> S(<<"a", "b", "c">>)],
    [va_temperature |-> [null |-> TRUE]],
    [va_humidity |-> N(25)], [va_humidity |-> N(28)], [va_humidity |-> S(<<"n", "a">>)],
    [va_temperature |-> N(300), va_humidity |-> N(20)] }

CondResults ==
  { [kind |-> "throw"], [kind |-> "return", success |-> FALSE], [kind |-> "return", success |-> TRUE] }
  \cup { [kind |-> "return", success |-> TRUE, status |-> st] : st \in CondStatuses }

CondInputs ==
  { [condition |-> Cond(metric, operator, value10), result |-> result] :
      metric \in {"temperature", "humidity"}, operator \in {">", "<", ">=", "<="},
      value10 \in {250, 280}, result \in CondResults }

InitCond ==
  /\ now = At(1, 6, 59, 30)
  /\ store = MorningStore
  /\ lastExecutionTimes = <<>>
  /\ timerNext = now + IntervalMs
  /\ runs = <<NewTick(now)>>
  /\ fired = <<>>
  /\ checked = {}
  /\ edits = 0
  /\ cIn \in CondInputs
  /\ cOut = "unset"

\* one call of checkCondition(cIn.condition), getDeviceStatus doing cIn.result
Evaluate ==
  /\ cOut = "unset"
  /\ cOut' = IF checkCondition(cIn.condition, cIn.result) THEN "true" ELSE "false"
  /\ UNCHANGED <<now, store, lastExecutionTimes, timerNext, runs, fired, checked, edits, cIn>>

NextCond == Evaluate

SpecCond == InitCond /\ [][NextCond]_vars

\* ------------------------------------ convertToTuyaCommands on its own inputs
Categories == {NoCategory, "kt", "infrared_ac", "dj", "dd", "xdd", "cz"}

\* Kelvin values of a ColorTemperature command
Kelvins == 2700..6500

\* percent values of a Brightness command
Percents == 0..100

\* a field that is absent or holds one of the values
Optional(field, values) == {<<>>} \cup {field :> v : v \in values}

\* TuyaLight commands with every subset of the four optional fields
TuyaLightCommands ==
  { [type |-> "TuyaLight"] @@ w @@ b @@ t @@ c :
      w \in Optional("workMode", {"white", "colour"}),
      b \in Optional("brightness", {0, 1, 40, 100}),
      t \in Optional("colorTemp", {0, 500}),
      c \in Optional("colorHSV", {[h |-> 120, s |-> 1000, v |-> 1000]}) }

\* the primary and secondary colours, white, black and a grey
ChannelSamples == {0, 1, 4, 127, 128, 254, 255}
Colours ==
  { <<255, 0, 0>>, <<0, 255, 0>>, <<0, 0, 255>>, <<255, 255, 0>>, <<0, 255, 255>>,
    <<255, 0, 255>>, <<255, 255, 255>>, <<0, 0, 0>>, <<128, 128, 128>>, <<255, 0, 1>> }
  \cup (ChannelSamples \X ChannelSamples \X ChannelSamples)

TranslateCommands ==
  { [type |-> "OnOff", on |-> on] : on \in BOOLEAN }
  \cup { [type |-> "Brightness", brightness |-> p] : p \in Percents }
  \cup { [type |-> "ColorTemperature", temperatureK |-> k] : k \in Kelvins }
  \cup { [type |-> "ColorRGB", r |-> c[1], g |-> c[2], b |-> c[3]] :
           c \in {<<255, 0, 0>>, <<0, 255, 0>>, <<10, 20, 255>>, <<0, 0, 0>>} \cup Colours }
  \cup { [type |-> "Thermostat", mode |-> mode] : mode \in {"off", "cool", "heat", "auto"} }
  \cup { [type |-> "Thermostat", mode |-> mode, temperature |-> temperature] :
           mode \in {"off", "cool", "heat", "auto"}, temperature \in {0, 16, 22, 30} }
  \cup { [type |-> "FanSpeed", speedPercent |-> sp] : sp \in Percents }
  \cup TuyaLightCommands
  \cup { [type |-> "TuyaAC", mode |-> "cold", temperature |-> 24, fan |-> fan] : fan \in {"auto", "high"} }
  \cup { [type |-> "TuyaLight"],
         [type |-> "TuyaLight", workMode |-> "white", brightness |-> 0, colorTemp |-> 500],
         [type |-> "TuyaLight", brightness |-> 40],
         [type |-> "TuyaLight", colorHSV |-> [h |-> 120, s |-> 1000, v |-> 1000]] }
  \cup { [type |-> "onoff", on |-> TRUE], [type |-> "Dimmer", brightness |-> 50],
         [type |-> "", on |-> TRUE] }

TranslateInputs ==
  { [command |-> command, category |-> category] :
      command \in TranslateCommands, category \in Categories }

NotTranslated == [done |-> FALSE]

InitTranslate ==
  /\ now = At(1, 6, 59, 30)
  /\ store = MorningStore
  /\ lastExecutionTimes = <<>>
  /\ timerNext = now + IntervalMs
  /\ runs = <<NewTick(now)>>
  /\ fired = <<>>
  /\ checked = {}
  /\ edits = 0
  /\ cIn \in TranslateInputs
  /\ cOut = NotTranslated

\* one call of convertToTuyaCommands(cIn.command, cIn.category)
Translate ==
  /\ ~cOut.done
  /\ cOut' = [done |-> TRUE, value |-> convertToTuyaCommands(cIn.command, cIn.category)]
  /\ UNCHANGED <<now, store, lastExecutionTimes, timerNext, runs, fired, checked, edits, cIn>>

NextTranslate == Translate

SpecTranslate == InitTranslate /\ [][NextTranslate]_vars

\* ================================================================== claims
InSlot(run) == run.pc \in {"guard", "send", "ret"}
Running == {p \in 1..Len(runs) : runs[p].pc # "done"}
TickFirings == {x \in DOMAIN fired : x.kind = "tick"}
Apart(x, y) == x.at - y.at >= DedupWindowMs \/ y.at - x.at >= DedupWindowMs
\* minute of the week of instant t, counted from sunday 00:00
WeekMinute(t) == (t % (7 * DayMs)) \div MinuteMs
IsMonday0700(t) == WeekMinute(t) = 24 * 60 + 7 * 60
IsMonday0701(t) == WeekMinute(t) = 24 * 60 + 7 * 60 + 1

\* whoever was suppressed was suppressed by a firing of the same key less than 2 minutes before
SuppressedByFiring ==
  \A c \in checked : c.outcome = "suppressed" =>
    \E x \in DOMAIN fired : x.key = c.key /\ x.at <= c.at /\ c.at - x.at < DedupWindowMs

\* C1: ticks that find the same slot due within the 2-minute window fire it
\* once: no two tick firings of one key are less than 2 minutes apart, and a
\* due slot that a tick did not fire was suppressed by a dedup entry of that
\* key younger than 2 minutes.
C1_DedupFiresOnce ==
  /\ \A x \in TickFirings :
       /\ fired[x] = 1
       /\ \A y \in TickFirings : (y.key = x.key /\ y # x) => Apart(x, y)
       /\ x.key \in DOMAIN lastExecutionTimes /\ lastExecutionTimes[x.key] >= x.at
  /\ SuppressedByFiring

\* two ticks found the slot due one after the other; the first fired, the second was suppressed
C1_Witness ==
  \E c \in checked : c.outcome = "suppressed" /\ \E x \in TickFirings : x.key = c.key /\ x.at < c.at

\* C2: at most one checkSchedules run is in progress in every reachable state.
C2_TicksNeverOverlap ==
  Cardinality({p \in Running : runs[p].kind = "tick"}) <= 1

\* C3: a manual trigger and a tick never have action sends in flight at the same time.
C3_ManualSerializedWithTick ==
  \A p, q \in Running :
    ~(runs[p].kind = "tick" /\ runs[q].kind = "manual" /\ runs[p].pc = "send" /\ runs[q].pc = "send")

\* C4: while a slot's actions run (from the first guard read or send until
\* executeTimeSlot returns) the dedup entry of the slot is present and not
\* older than the firing, and a tick writes it at the very instant of its
\* due check.
C4_RecordedBeforeActions ==
  /\ \A p \in Running : InSlot(runs[p]) =>
       LET run == runs[p]
           key == executionKey(run.snap[run.si], timeSlotsOf(run.snap[run.si])[run.ki])
       IN  /\ Len(run.log) >= 1 /\ run.log[1].e = "fire" /\ run.log[1].key = key
           /\ \A j \in 2..Len(run.log) : run.log[j].e # "fire"
           /\ key \in DOMAIN lastExecutionTimes
           /\ lastExecutionTimes[key] >= run.log[1].at
  /\ \A c \in checked : c.outcome = "fired" =>
       /\ [key |-> c.key, at |-> c.at, kind |-> "tick"] \in DOMAIN fired
       /\ c.key \in DOMAIN lastExecutionTimes /\ lastExecutionTimes[c.key] >= c.at

\* the third action of a slot is being sent after the first one's send threw
C4_Witness ==
  \E p \in Running :
    /\ runs[p].pc = "send" /\ runs[p].ai = 3
    /\ runs[p].io.op = "sendCommand" /\ runs[p].io.result.kind = "throw"
    /\ now > runs[p].log[1].at

processed(run, i) == IF run.pc = "ret" THEN TRUE ELSE i < run.ai
guardEvaluated(run, i) == \E j \in 1..Len(run.log) : run.log[j].e = "guard" /\ run.log[j].ai = i
guardMet(run, i) == \E j \in 1..Len(run.log) : run.log[j].e = "guard" /\ run.log[j].ai = i /\ run.log[j].met
sendIssued(run, i) == \E j \in 1..Len(run.log) : run.log[j].e = "send" /\ run.log[j].ai = i
translates(action) ==
  Has(action, "command") /\ Len(convertToTuyaCommands(action.command, categoryOf(action))) > 0

\* C5: in a firing every action is reached whatever happened to the others:
\* each action already passed has had its guard evaluated if it has one and
\* its command handed to sendCommand if the guard is absent or met and the
\* translation is non-empty, and executeTimeSlot returns only after the last action.
C5_ActionIsolation ==
  \A p \in Running : InSlot(runs[p]) =>
    LET run == runs[p]
        actions == currentActions(run)
    IN  /\ run.pc = "ret" => run.ai = Len(actions) + 1
        /\ \A i \in 1..Len(actions) : processed(run, i) =>
             /\ Has(actions[i], "condition") => guardEvaluated(run, i)
             /\ ((~Has(actions[i], "condition") \/ guardMet(run, i)) /\ translates(actions[i]))
                  => sendIssued(run, i)

\* action 3 is sent although the send of action 1 threw and action 2 had no instructions
C5_Witness ==
  \E p \in Running :
    /\ runs[p].pc = "send" /\ runs[p].ai = 3
    /\ runs[p].io = [op |-> "sendCommand", ai |-> 1, result |-> [kind |-> "throw"]]
    /\ \E j \in 1..Len(runs[p].log) : runs[p].log[j] = [e |-> "empty", ai |-> 2]
    /\ sendIssued(runs[p], 3)

\* the dedup keys of the schedules the store holds enabled
EnabledKeys ==
  { executionKey(store[u].schedules[j], store[u].schedules[j].timeSlots[k]) :
      <<u, j, k>> \in { x \in (1..Len(store)) \X (1..2) \X (1..2) :
                          /\ x[2] <= Len(store[x[1]].schedules)
                          /\ store[x[1]].schedules[x[2]].enabled
                          /\ x[3] <= Len(store[x[1]].schedules[x[2]].timeSlots) } }

\* C6: a schedule that is disabled in the snapshot a run read is not in the
\* list the run works on, so the run fires only enabled schedules; as long as
\* the store is not edited, every due check, firing and dedup entry belongs
\* to a schedule the store holds enabled.
C6_DisabledNeverExecuted ==
  /\ \A p \in Running :
       /\ \A i \in 1..Len(runs[p].snap) : runs[p].snap[i].enabled
       /\ InSlot(runs[p]) =>
            /\ runs[p].snap[runs[p].si].enabled
            /\ runs[p].log[1].id = runs[p].snap[runs[p].si].id
            /\ runs[p].log[1].userId = runs[p].snap[runs[p].si].userId
  /\ edits = 0 =>
       /\ \A c \in checked : c.key \in EnabledKeys
       /\ \A x \in DOMAIN fired : x.key \in EnabledKeys
       /\ DOMAIN lastExecutionTimes \subseteq EnabledKeys

\* with a disabled schedule due at 07:00 in the store, a tick has fired the
\* enabled one and a manual trigger of the disabled one has found nothing
C6_Witness ==
  /\ edits = 0 /\ store = ClimateStore
  /\ \E c \in checked : c.outcome = "fired" /\ IsMonday0700(c.at)
  /\ \E p \in 1..Len(runs) :
       runs[p].kind = "manual" /\ runs[p].args = <<DisabledSchedule.id, <<"c">>>>
       /\ runs[p].out = "Schedule not found"

readFailed(result) == result.kind = "throw" \/ ~result.success

\* C7: when the status read throws or returns a failure, checkCondition is
\* true for every metric, operator and threshold.
C7_FailOpenOnReadError ==
  (cOut # "unset" /\ readFailed(cIn.result)) => cOut = "true"

\* a throwing read under a condition that a reading could not have met
C7_Witness ==
  cOut = "true" /\ cIn.result.kind = "throw" /\ cIn.condition.operator = "<" /\ cIn.condition.value = 250

metricCode(condition) == IF condition.metric = "temperature" THEN "va_temperature" ELSE "va_humidity"

metricUnusable(condition, status) ==
  \/ ~NotNull(status, metricCode(condition))
  \/ Number(status[metricCode(condition)]).nan

\* C8: when the status is read but the metric's field is absent or is not a
\* number, checkCondition is true for every operator and threshold.
C8_FailOpenOnUnusableMetric ==
  (/\ cOut # "unset"
   /\ ~readFailed(cIn.result)
   /\ Has(cIn.result, "status")
   /\ metricUnusable(cIn.condition, cIn.result.status)) => cOut = "true"

OnInstructions == <<Instr("switch_led", B(TRUE)), Instr("switch_1", B(TRUE)), Instr("switch", B(TRUE))>>

\* C9: with the monday 07:00 schedule alone in the store (not edited, no
\* manual trigger), once a tick has checked the slot at Monday 07:00 there is
\* exactly one firing of it, made at 07:00, and that firing hands exactly the
\* 'on' instructions for D to sendCommand once; a tick that checks at 07:01
\* finds the slot not due, and nothing is ever fired at 07:01.
C9_EndToEnd ==
  (store = MorningStore /\ edits = 0 /\ NumRuns("manual") = 0) =>
    /\ (\E c \in checked : IsMonday0700(c.at)) =>
         \E x \in TickFirings : TickFirings = {x} /\ fired[x] = 1 /\ IsMonday0700(x.at)
    /\ \A c \in checked : IsMonday0701(c.at) => c.outcome = "unmatched"
    /\ \A x \in DOMAIN fired : ~IsMonday0701(x.at)
    /\ \A p \in Running : InSlot(runs[p]) =>
         /\ runs[p].pc # "guard"
         /\ eventsOf(runs[p].log, "send") =
              <<[e |-> "send", ai |-> 1, deviceId |-> "D", commands |-> OnInstructions]>>

\* the slot was fired at 07:00 and a later tick has checked it at 07:01
C9_Witness ==
  /\ store = MorningStore /\ edits = 0 /\ NumRuns("manual") = 0
  /\ \E x \in TickFirings : IsMonday0700(x.at)
  /\ \E c \in checked : IsMonday0701(c.at)

storeReadFailed(run) == run.pc = "done" /\ run.out = "store read failed"

\* C10: the step in which a tick's store read fails changes nothing but that
\* run, which ends: no dedup entry, due check or firing is added, the timer
\* and the other runs are untouched; and no later suppression stems from it
\* (a suppressed slot always has a real firing less than 2 minutes before).
C10_StoreFailureAbandonsTick ==
  /\ [][\A p \in 1..Len(runs) :
          (runs[p].kind = "tick" /\ runs[p].pc = "load" /\ storeReadFailed(runs'[p])) =>
            /\ lastExecutionTimes' = lastExecutionTimes
            /\ fired' = fired /\ checked' = checked
            /\ timerNext' = timerNext
            /\ Len(runs') = Len(runs)
            /\ \A q \in 1..Len(runs) : q # p => runs'[q] = runs[q]]_vars
  /\ []SuppressedByFiring

\* after a tick whose store read failed, the next tick has fired a due slot
C10_Witness ==
  \E p, q \in 1..Len(runs) :
    /\ p < q /\ runs[p].kind = "tick" /\ storeReadFailed(runs[p])
    /\ runs[q].kind = "tick" /\ InSlot(runs[q])
    /\ fired = ([key |-> runs[q].log[1].key, at |-> runs[q].log[1].at, kind |-> "tick"] :> 1)

tickEnds(p) == runs[p].kind = "tick" /\ runs[p].pc # "done" /\ runs'[p].pc = "done"
threwInside(run) == run.io.op # "none" /\ run.io.result.kind = "throw"

\* C11: no tick ends the periodic loop.  The step in which a checkSchedules
\* run ends, with or without an exception, leaves the interval timer and
\* every other invocation as they were; the timer stays armed to expire
\* within one interval; a run ends only as "ok", "store read failed" or
\* "TypeError" (the exception is consumed in the run), and a guard read or a
\* send that threw leaves its run going inside the slot.
C11_LoopSurvivesFailingTick ==
  /\ [][\A p \in 1..Len(runs) : tickEnds(p) =>
          /\ timerNext' = timerNext
          /\ Len(runs') = Len(runs)
          /\ \A q \in 1..Len(runs) : q # p => runs'[q] = runs[q]]_vars
  /\ [](timerNext <= now + IntervalMs)
  /\ [](\A p \in 1..Len(runs) :
         /\ runs[p].pc = "done" => runs[p].out \in {"ok", "store read failed", "TypeError"}
         /\ (runs[p].pc # "done" /\ threwInside(runs[p])) => InSlot(runs[p]))

\* a tick ended by the TypeError of a due check, and the tick of the next
\* timer expiry is sending after the translation of an action threw
C11_Witness ==
  \E p, q \in 1..Len(runs) :
    /\ p < q /\ runs[p].kind = "tick" /\ runs[p].pc = "done" /\ runs[p].out = "TypeError"
    /\ runs[q].kind = "tick" /\ runs[q].pc = "send"
    /\ \E j \in 1..Len(runs[q].log) : runs[q].log[j].e = "error"

\* C12: every started tick eventually returns, even if a device or sensor
\* never answers (every status read and every send is given up after a
\* bounded wait).
C12_EveryTickFinishes ==
  \A p \in 1..MaxTicks :
    (p <= Len(runs)) ~> (p <= Len(runs) /\ runs[p].pc = "done")

ManualFirings == {x \in DOMAIN fired : x.kind = "manual"}
manualLoads(p) ==
  /\ runs[p].kind = "manual" /\ runs[p].pc = "load"
  /\ runs'[p].pc # "load" /\ ~storeReadFailed(runs'[p])

\* C13: when triggerTimeSlot has read the store and the schedule is enabled
\* and holds the slot, it executes the slot in that very step, whatever the
\* weekday, the time and the dedup entry of the slot: a firing at the current
\* instant is recorded and the run is inside the slot.  Inside the slot every
\* action passed had its guard read if it has one, was sent if the guard was
\* absent or met and the translation non-empty, and was not sent if the
\* guard was not met.
C13_TriggerBypassesDueAndDedup ==
  /\ [][\A p \in 1..Len(runs) : manualLoads(p) =>
          LET snap == getAllEnabledSchedules(store)
              si == findIndex(snap, runs[p].args[1], 1)
              ki == IF si = 0 THEN 0 ELSE findIndex(timeSlotsOf(snap[si]), runs[p].args[2], 1)
          IN  (si # 0 /\ ki # 0) =>
                LET key == executionKey(snap[si], timeSlotsOf(snap[si])[ki])
                IN  /\ InSlot(runs'[p]) /\ runs'[p].si = si /\ runs'[p].ki = ki
                    /\ runs'[p].log[1].e = "fire" /\ runs'[p].log[1].at = now
                    /\ fired' = BagAdd(fired, [key |-> key, at |-> now, kind |-> "manual"])
                    /\ lastExecutionTimes'[key] = now]_vars
  /\ [](\A p \in Running : (runs[p].kind = "manual" /\ InSlot(runs[p])) =>
         LET run == runs[p]
             actions == currentActions(run)
         IN  \A i \in 1..Len(actions) : processed(run, i) =>
               /\ Has(actions[i], "condition") => guardEvaluated(run, i)
               /\ ((~Has(actions[i], "condition") \/ guardMet(run, i)) /\ translates(actions[i]))
                    => sendIssued(run, i)
               /\ (Has(actions[i], "condition") /\ ~guardMet(run, i)) => ~sendIssued(run, i))

\* a manual trigger is inside a slot it fired at an instant other than the
\* slot's minute, less than 2 minutes after a tick fired the same slot, and
\* the guard of the slot's first action has been read
C13_Witness ==
  \E p \in Running :
    /\ runs[p].kind = "manual" /\ InSlot(runs[p]) /\ guardEvaluated(runs[p], 1)
    /\ ~IsMonday0700(runs[p].log[1].at)
    /\ \E x \in TickFirings :
         /\ x.key = runs[p].log[1].key
         /\ x.at < runs[p].log[1].at /\ runs[p].log[1].at - x.at < DedupWindowMs

\* the slots of the stored schedules: dedup key, active weekdays, start time
StoredSlots ==
  UNION { UNION { { [key |-> executionKey(store[u].schedules[j], timeSlotsOf(store[u].schedules[j])[k]),
                     days |-> store[u].schedules[j].daysOfWeek,
                     startTime |-> timeSlotsOf(store[u].schedules[j])[k].startTime] :
                      k \in 1..Len(timeSlotsOf(store[u].schedules[j])) } :
                  j \in {i \in 1..Len(store[u].schedules) : Has(store[u].schedules[i], "daysOfWeek")} } :
          u \in 1..Len(store) }

EmptyDaysKeys == { sl.key : sl \in {x \in StoredSlots : x.days = <<>>} }

WeekdayAt(t) == DAY_MAP[(WeekMinute(t) \div (24 * 60)) + 1]
ClockAt(t) ==
  LET h == (WeekMinute(t) % (24 * 60)) \div 60
      m == WeekMinute(t) % 60
  IN  <<h \div 10, h % 10, 10, m \div 10, m % 10>>
MatchesAt(sl, t) == Includes(sl.days, WeekdayAt(t)) /\ sl.startTime = ClockAt(t)

\* C15: a tick fires a slot only when, at the instant of the check, the
\* weekday is one of the schedule's active weekdays and the slot's startTime
\* is exactly the current HH:MM; a due check made in any other minute, or on
\* any other weekday, finds the slot not due, and one made in the slot's
\* minute never finds it unmatched.
C15_ExactMinuteMatch ==
  /\ \A c \in checked : \E sl \in StoredSlots :
       /\ sl.key = c.key
       /\ c.outcome \in {"fired", "suppressed"} <=> MatchesAt(sl, c.at)
       /\ c.outcome = "unmatched" <=> ~MatchesAt(sl, c.at)
  /\ \A x \in TickFirings : \E sl \in StoredSlots : sl.key = x.key /\ MatchesAt(sl, x.at)

\* a slot was found not due and, at most a minute later, the same slot was
\* fired; another firing was made half a minute into the slot's minute
C15_Witness ==
  /\ \E c, d \in checked :
       /\ c.key = d.key /\ c.outcome = "unmatched" /\ d.outcome = "fired"
       /\ c.at < d.at /\ d.at - c.at <= MinuteMs
  /\ \E x \in TickFirings : x.at % MinuteMs # 0

\* the run p, a tick, goes through due checks in this step and none finds a slot due
scansWithoutFiring(p) ==
  /\ runs[p].kind = "tick" /\ runs[p].pc \in {"load", "ret"} /\ runs'[p] # runs[p]
  /\ \A c \in checked' \ checked : c.outcome # "fired"

\* C16: due checks change nothing.  A step in which a tick evaluates due
\* checks and none is true leaves the dedup map and the firings as they were
\* and hands nothing to a device (the tick returns); the dedup map changes
\* only in a step that records a firing.
C16_DueCheckHasNoEffect ==
  /\ [][\A p \in 1..Len(runs) : scansWithoutFiring(p) =>
          /\ lastExecutionTimes' = lastExecutionTimes
          /\ fired' = fired
          /\ runs'[p].pc = "done"]_vars
  /\ [][fired' = fired => lastExecutionTimes' = lastExecutionTimes]_vars

\* a due check suppressed a slot and the slot's dedup entry is still the one
\* of the earlier firing
C16_Witness ==
  \E c \in checked :
    /\ c.outcome = "suppressed"
    /\ c.key \in DOMAIN lastExecutionTimes /\ lastExecutionTimes[c.key] < c.at

holdsSnapshot(run) == run.pc \notin {"load", "done"}

\* C17: the scheduler only reads the store, once per run.  The store changes
\* in no step but an edit made through the routes; a run takes its snapshot
\* in the step that ends its one store read, as the enabled schedules the
\* store holds at that instant, and from then on neither reads again nor
\* sees its snapshot change, whatever is edited in the store meanwhile.
C17_StoreReadOnlySnapshot ==
  /\ [][edits' = edits => store' = store]_vars
  /\ [][\A p \in 1..Len(runs) :
          /\ (runs[p].pc = "load" /\ holdsSnapshot(runs'[p])) =>
                runs'[p].snap = getAllEnabledSchedules(store)
          /\ holdsSnapshot(runs[p]) =>
                /\ runs'[p].pc # "load"
                /\ holdsSnapshot(runs'[p]) => runs'[p].snap = runs[p].snap
          /\ runs[p].pc = "done" => runs'[p] = runs[p]]_vars

\* a schedule was switched off while a tick was inside its slot, and the tick
\* has gone on to the slot's third action with the snapshot it took
C17_Witness ==
  \E p \in Running :
    /\ runs[p].kind = "tick" /\ runs[p].pc = "send" /\ runs[p].ai = 3
    /\ edits = 1
    /\ ~store[1].schedules[1].enabled
    /\ runs[p].snap[runs[p].si].id = store[1].schedules[1].id
    /\ runs[p].snap # getAllEnabledSchedules(store)

DefinedTypes ==
  {"OnOff", "TuyaAC", "TuyaLight", "Brightness", "ColorTemperature", "ColorRGB", "Thermostat", "FanSpeed"}
VendorCodes ==
  {"switch", "switch_led", "switch_1", "mode", "temp", "fan", "work_mode",
   "bright_value_v2", "temp_value_v2", "colour_data_v2"}

\* C18: convertToTuyaCommands returns for every command and category: the
\* empty sequence for a command whose type is none of the eight variants, a
\* sequence of {code, value} instructions with vendor codes for each
\* variant, at least one instruction for every variant but Thermostat and
\* TuyaLight.
C18_TranslatorTotal ==
  cOut.done =>
    /\ cIn.command.type \notin DefinedTypes => cOut.value = <<>>
    /\ cIn.command.type \in DefinedTypes =>
         \A i \in 1..Len(cOut.value) :
           DOMAIN cOut.value[i] = {"code", "value"} /\ cOut.value[i].code \in VendorCodes
    /\ cIn.command.type \in DefinedTypes \ {"Thermostat", "TuyaLight"} => Len(cOut.value) >= 1

\* a command of an unknown type, carrying a field of a known one, was translated to nothing
C18_Witness ==
  /\ cOut.done /\ cIn.command = [type |-> "Dimmer", brightness |-> 50] /\ cIn.category = "dj"
  /\ cOut.value = <<>>

\* round(p / 100 * 1000) of a whole percent p
ScaledPercent(p) == CHOOSE n \in 0..1000 : 100 * n = 1000 * p
isBrightnessCall == cOut.done /\ cIn.command.type = "Brightness"

\* C19: Brightness(p) translates, under every category, to the single
\* instruction bright_value_v2 with value round(p / 100 * 1000).
C19_BrightnessScaling ==
  isBrightnessCall =>
    cOut.value = <<Instr("bright_value_v2", N(ScaledPercent(cIn.command.brightness)))>>

\* C19 as amended: the value is round(p / 100 * 1000) raised to at least 10,
\* so 10 for p = 0, 10 * p for p in 1..100, and 500 for p = 50.
C19_BrightnessScalingFloored ==
  isBrightnessCall =>
    LET p == cIn.command.brightness
    IN  /\ Len(cOut.value) = 1
        /\ cOut.value[1].code = "bright_value_v2"
        /\ cOut.value[1].value = N(IF ScaledPercent(p) < 10 THEN 10 ELSE ScaledPercent(p))
        /\ p = 50 => cOut.value[1].value = N(500)
        /\ p = 0 => cOut.value[1].value = N(10)

\* Brightness(0) was translated for a light (category dj) to the value 10
C19_Witness ==
  /\ isBrightnessCall /\ cIn.command.brightness = 0 /\ cIn.category = "dj"
  /\ cOut.value = <<Instr("bright_value_v2", N(10))>>

emits(value, code) == \E i \in 1..Len(value) : value[i].code = code

\* C20: translating a Thermostat command emits the mode instruction, with
\* the mode unchanged, exactly when the mode is not 'off', and the temp
\* instruction, with the temperature unchanged, exactly when the command
\* carries a temperature, 0 included.
C20_ThermostatTranslation ==
  (cOut.done /\ cIn.command.type = "Thermostat") =>
    /\ emits(cOut.value, "mode") <=> cIn.command.mode # "off"
    /\ emits(cOut.value, "temp") <=> Has(cIn.command, "temperature")
    /\ \A i \in 1..Len(cOut.value) :
         /\ cOut.value[i].code = "mode" => cOut.value[i].value = S(cIn.command.mode)
         /\ cOut.value[i].code = "temp" => cOut.value[i].value = N(cIn.command.temperature)

\* the positions of the instructions with a given code, and how many a present field adds
positionsOf(value, code) == {i \in 1..Len(value) : value[i].code = code}
countIf(present) == IF present THEN 1 ELSE 0

\* C21: translating a TuyaLight command, each field decides its own
\* instructions: workMode gives work_mode with that mode, first in the
\* sequence; brightness b gives one bright_value_v2 with max(10, 10 * b);
\* colorTemp gives one temp_value_v2 with the value unchanged; colorHSV gives
\* work_mode 'colour' followed by one colour_data_v2 holding the triple; an
\* absent field adds nothing, so the length is the sum over the present
\* fields and no field gives the empty sequence.
C21_TuyaLightFieldsIndependent ==
  (cOut.done /\ cIn.command.type = "TuyaLight") =>
    LET c == cIn.command
        v == cOut.value
    IN  /\ Len(v) = countIf(Has(c, "workMode")) + countIf(Has(c, "brightness"))
                     + countIf(Has(c, "colorTemp")) + 2 * countIf(Has(c, "colorHSV"))
        /\ Has(c, "workMode") => v[1] = Instr("work_mode", S(c.workMode))
        /\ Cardinality(positionsOf(v, "work_mode")) = countIf(Has(c, "workMode")) + countIf(Has(c, "colorHSV"))
        /\ Cardinality(positionsOf(v, "bright_value_v2")) = countIf(Has(c, "brightness"))
        /\ \A i \in positionsOf(v, "bright_value_v2") :
             v[i].value = N(IF 10 * c.brightness < 10 THEN 10 ELSE 10 * c.brightness)
        /\ Cardinality(positionsOf(v, "temp_value_v2")) = countIf(Has(c, "colorTemp"))
        /\ \A i \in positionsOf(v, "temp_value_v2") : v[i].value = N(c.colorTemp)
        /\ Cardinality(positionsOf(v, "colour_data_v2")) = countIf(Has(c, "colorHSV"))
        /\ \A i \in positionsOf(v, "colour_data_v2") :
             /\ v[i].value = J(c.colorHSV)
             /\ i > 1 /\ v[i - 1] = Instr("work_mode", S("colour"))

\* all four fields present, brightness 0 and colorTemp 0 among them: five instructions
C21_Witness ==
  /\ cOut.done /\ cIn.command.type = "TuyaLight"
  /\ Has(cIn.command, "workMode") /\ Has(cIn.command, "colorHSV")
  /\ Has(cIn.command, "brightness") /\ cIn.command.brightness = 0
  /\ Has(cIn.command, "colorTemp") /\ cIn.command.colorTemp = 0
  /\ Len(cOut.value) = 5
  /\ cOut.value[2] = Instr("bright_value_v2", N(10)) /\ cOut.value[3] = Instr("temp_value_v2", N(0))

codesOf(value) == [i \in 1..Len(value) |-> value[i].code]
LegacyCodes == <<"switch_led", "switch_1", "switch">>

\* C22: translating OnOff never gives the empty sequence; the AC categories
\* infrared_ac and kt get the single code switch; a category that gets more
\* than one code gets switch_led, switch_1 and switch together, and so does
\* every category other than the AC and the light ones (an absent category
\* included); every instruction carries the command's boolean.
C22_OnOffCategoryAware ==
  (cOut.done /\ cIn.command.type = "OnOff") =>
    /\ Len(cOut.value) >= 1
    /\ \A i \in 1..Len(cOut.value) : cOut.value[i].value = B(cIn.command.on)
    /\ cIn.category \in {"infrared_ac", "kt"} => codesOf(cOut.value) = <<"switch">>
    /\ Len(cOut.value) > 1 => codesOf(cOut.value) = LegacyCodes
    /\ cIn.category \notin {"infrared_ac", "kt", "dj", "dd", "xdd"} => codesOf(cOut.value) = LegacyCodes

\* OnOff(false) for category kt gave the single instruction switch = false
C22_Witness ==
  /\ cOut.done /\ cIn.command = [type |-> "OnOff", on |-> FALSE] /\ cIn.category = "kt"
  /\ cOut.value = <<Instr("switch", B(FALSE))>>

\* C23: FanSpeed(p) translates to the single instruction fan with 'high'
\* for p > 66, 'mid' for 33 < p <= 66 and 'low' for p <= 33; so 70 is high,
\* 50 mid, 20 low, 66 mid and 33 low.
C23_FanSpeedBuckets ==
  (cOut.done /\ cIn.command.type = "FanSpeed") =>
    LET p == cIn.command.speedPercent
    IN  /\ Len(cOut.value) = 1 /\ cOut.value[1].code = "fan"
        /\ p > 66 => cOut.value[1].value = S("high")
        /\ (33 < p /\ p <= 66) => cOut.value[1].value = S("mid")
        /\ p <= 33 => cOut.value[1].value = S("low")
        /\ p = 70 => cOut.value[1].value = S("high")
        /\ p \in {50, 66} => cOut.value[1].value = S("mid")
        /\ p \in {20, 33} => cOut.value[1].value = S("low")

\* the boundary 66 was translated to mid
C23_Witness ==
  /\ cOut.done /\ cIn.command = [type |-> "FanSpeed", speedPercent |-> 66]
  /\ cOut.value = <<Instr("fan", S("mid"))>>

rgbOf(command) == <<command.r, command.g, command.b>>

\* C24: translating ColorRGB gives work_mode 'colour' followed by one
\* colour_data_v2 holding {h, s, v} with h in 0..360 and s, v in 0..1000,
\* where red is (0, 1000, 1000), green has hue 120, blue 240, yellow 60,
\* cyan 180 and magenta 300, each fully saturated, and white, grey and black
\* have saturation 0 and hue 0.
C24_RgbToHsvSectors ==
  (cOut.done /\ cIn.command.type = "ColorRGB") =>
    /\ Len(cOut.value) = 2
    /\ cOut.value[1] = Instr("work_mode", S("colour"))
    /\ cOut.value[2].code = "colour_data_v2" /\ DOMAIN cOut.value[2].value = {"json"}
    /\ LET hsv == cOut.value[2].value.json
            rgb == rgbOf(cIn.command)
        IN  /\ DOMAIN hsv = {"h", "s", "v"}
            /\ hsv.h \in 0..360 /\ hsv.s \in 0..1000 /\ hsv.v \in 0..1000
            /\ rgb = <<255, 0, 0>> => hsv = [h |-> 0, s |-> 1000, v |-> 1000]
            /\ rgb = <<0, 255, 0>> => hsv = [h |-> 120, s |-> 1000, v |-> 1000]
            /\ rgb = <<0, 0, 255>> => hsv = [h |-> 240, s |-> 1000, v |-> 1000]
            /\ rgb = <<255, 255, 0>> => hsv = [h |-> 60, s |-> 1000, v |-> 1000]
            /\ rgb = <<0, 255, 255>> => hsv = [h |-> 180, s |-> 1000, v |-> 1000]
            /\ rgb = <<255, 0, 255>> => hsv = [h |-> 300, s |-> 1000, v |-> 1000]
            /\ rgb = <<255, 255, 255>> => hsv = [h |-> 0, s |-> 0, v |-> 1000]
            /\ rgb = <<128, 128, 128>> => hsv.s = 0 /\ hsv.h = 0
            /\ rgb = <<0, 0, 0>> => hsv = [h |-> 0, s |-> 0, v |-> 0]

\* magenta, whose hue is computed negative and wrapped, was translated
C24_Witness ==
  /\ cOut.done /\ cIn.command = [type |-> "ColorRGB", r |-> 255, g |-> 0, b |-> 255]
  /\ cOut.value = <<Instr("work_mode", S("colour")),
                    Instr("colour_data_v2", J([h |-> 300, s |-> 1000, v |-> 1000]))>>

Abs(x) == IF x < 0 THEN -x ELSE x
scaledKelvin(k) == convertToTuyaCommands([type |-> "ColorTemperature", temperatureK |-> k], cIn.category)[1].value.n

\* C25: ColorTemperature(K) for K in 2700..6500 translates to the single
\* instruction temp_value_v2 whose value is the integer nearest to
\* (K - 2700) / 3800 * 1000; it lies in 0..1000, is 0 for 2700 and 1000 for
\* 6500, and is not smaller than the value for K - 1.
C25_ColorTemperatureScaling ==
  (cOut.done /\ cIn.command.type = "ColorTemperature") =>
    LET k == cIn.command.temperatureK
    IN  /\ Len(cOut.value) = 1 /\ cOut.value[1].code = "temp_value_v2"
        /\ DOMAIN cOut.value[1].value = {"n"}
        /\ LET n == cOut.value[1].value.n
            IN  /\ n \in 0..1000
                /\ 2 * Abs(3800 * n - 1000 * (k - 2700)) <= 3800
                /\ k = 2700 => n = 0
                /\ k = 6500 => n = 1000
                /\ k > 2700 => n >= scaledKelvin(k - 1)

\* 4600 K, the middle of the range, was translated to 500
C25_Witness ==
  /\ cOut.done /\ cIn.command = [type |-> "ColorTemperature", temperatureK |-> 4600]
  /\ cOut.value = <<Instr("temp_value_v2", N(500))>>

\* the reported number of a status field, and ten times the normalized reading
reported(v) == IF Has(v, "n") THEN v.n ELSE DecimalValue(v.s)
reading10(condition, status) ==
  IF condition.metric = "temperature" THEN reported(status.va_temperature)
  ELSE 10 * reported(status.va_humidity)
holds(operator, a, b) ==
  CASE operator = ">" -> a > b
    [] operator = "<" -> a < b
    [] operator = ">=" -> a >= b
    [] operator = "<=" -> a <= b

metricRead ==
  /\ cOut # "unset" /\ ~readFailed(cIn.result) /\ Has(cIn.result, "status")
  /\ ~metricUnusable(cIn.condition, cIn.result.status)

\* C26: when the status holds a numeric value for the condition's metric,
\* checkCondition returns exactly (reading operator threshold), the reading
\* being the reported temperature divided by 10, or the humidity as
\* reported; on a reading equal to the threshold >= and <= are true and >
\* and < are false.
C26_ConditionComparison ==
  metricRead =>
    LET a == reading10(cIn.condition, cIn.result.status)
        b == cIn.condition.value
    IN  /\ cOut = "true" <=> holds(cIn.condition.operator, a, b)
        /\ a = b => (cOut = "true" <=> cIn.condition.operator \in {">=", "<="})

\* a temperature reported as 280 tenths met the condition >= 28 degrees
C26_Witness ==
  /\ metricRead /\ cOut = "true"
  /\ cIn.condition.metric = "temperature" /\ cIn.condition.operator = ">="
  /\ cIn.condition.value = 280 /\ cIn.result.status = [va_temperature |-> N(280)]

\* ------------------------------------------------------------ C27 .. C30
\* the tick p takes a step of its loop over the slots
loops(p) ==
  /\ p \in 1..Len(runs) /\ runs[p].kind = "tick"
  /\ runs[p].pc \in {"load", "ret"} /\ runs'[p] # runs[p]
newChecks == checked' \ checked
slotOf(key) == {sl \in StoredSlots : sl.key = key}
\* two stored slots with different keys, the same weekdays and the same start time
twins(k1, k2) ==
  /\ k1 # k2
  /\ \E a \in slotOf(k1), b \in slotOf(k2) : a.days = b.days /\ a.startTime = b.startTime
\* the (schedule id, slot id) pairs of the stored slots
StoredPairs ==
  UNION { UNION { { <<store[u].schedules[j], timeSlotsOf(store[u].schedules[j])[k]>> :
                      k \in 1..Len(timeSlotsOf(store[u].schedules[j])) } :
                  j \in 1..Len(store[u].schedules) } :
          u \in 1..Len(store) }

\* C27: a tick that has fired a slot and goes on with its loop does not find
\* a slot with the same weekdays and start time, but another (schedule id,
\* slot id) pair, not due; stored slots with different pairs have different
\* dedup keys, and a due check is suppressed only by a firing of its own key.
C27_SlotsIndependent ==
  [][ /\ \A p \in 1..Len(runs) : (loops(p) /\ runs[p].pc = "ret") =>
           \A c \in newChecks : twins(c.key, runs[p].log[1].key) => c.outcome # "unmatched"
      /\ \A a, b \in StoredPairs :
           (a[1].id # b[1].id \/ a[2].id # b[2].id) => executionKey(a[1], a[2]) # executionKey(b[1], b[2])
      /\ \A c \in newChecks : c.outcome = "suppressed" =>
           \E x \in DOMAIN fired : x.key = c.key /\ x.at <= c.at /\ c.at - x.at < DedupWindowMs
    ]_vars

sends(run, i) == {j \in 1..Len(run.log) : run.log[j].e = "send" /\ run.log[j].ai = i}
sendFailed(run) ==
  /\ run.io.op = "sendCommand"
  /\ (run.io.result.kind = "throw" \/ ~run.io.result.success)

\* C28: the log of one firing holds at most one send per action; when a send
\* settles, whatever its result, the run goes on with a later action, and the
\* dedup entry of the fired slot is in place; a tick fires a slot only if no
\* tick has fired the same key within the two minutes before.
C28_SingleBestEffortDelivery ==
  [][ /\ \A p \in 1..Len(runs') : \A i \in 1..runs'[p].ai : Cardinality(sends(runs'[p], i)) <= 1
      /\ \A p \in 1..Len(runs) : (runs[p].pc = "send" /\ runs'[p] # runs[p]) =>
           /\ runs'[p].pc = "ret" \/ runs'[p].ai > runs[p].ai
           /\ runs[p].log[1].key \in DOMAIN lastExecutionTimes'
      /\ \A c \in newChecks : c.outcome = "fired" =>
           \A x \in TickFirings : x.key = c.key => c.at - x.at >= DedupWindowMs
    ]_vars

\* the send of a tick's firing has failed, and a later due check of the same
\* slot, made in the slot's minute, was suppressed
C28_Witness ==
  \E p \in 1..Len(runs) :
    /\ runs[p].kind = "tick" /\ runs[p].pc = "ret" /\ sendFailed(runs[p])
    /\ \E c \in checked :
         /\ c.key = runs[p].log[1].key /\ c.outcome = "suppressed"
         /\ c.at > runs[p].log[1].at

Ticks == {p \in 1..Len(runs) : runs[p].kind = "tick"}
latestTick == CHOOSE p \in Ticks : \A q \in Ticks : q <= p

\* C29: the first tick starts when the scheduler is started; a tick is
\* started only by an expired timer, one per expiry, and the timer then
\* expires one interval after that start, so two ticks start at least 60
\* seconds apart and there are never more ticks than full intervals elapsed,
\* plus one; every firing of a tick is made in the slot's own minute.
C29_TickCadence ==
  [][ /\ Len(runs') <= Len(runs) + 1
      /\ Len(runs') = Len(runs) + 1 =>
           /\ now >= timerNext
           /\ runs'[Len(runs')].started = now
           /\ timerNext' = now + IntervalMs
      /\ runs'[1].started = startedAt(now')
      /\ \A p, q \in Ticks' : p < q => runs'[q].started - runs'[p].started >= IntervalMs
      /\ Cardinality(Ticks') <= 1 + (now' - startedAt(now')) \div IntervalMs
      /\ \A x \in {y \in DOMAIN fired' : y.kind = "tick"} :
           \E sl \in StoredSlots' : sl.key = x.key /\ MatchesAt(sl, x.at)
    ]_vars

\* the second tick was started 90 seconds after the first, at monday 07:01:00;
\* the 07:00 slot was checked by both, found not due, and nothing was fired
C29_Witness ==
  /\ Len(runs) = 2 /\ runs[2].pc = "done"
  /\ runs[2].started - runs[1].started > IntervalMs
  /\ IsMonday0701(runs[2].started)
  /\ \E sl \in StoredSlots : sl.days = <<"monday">> /\ sl.startTime = HHMM(0, 7, 0, 0)
                              /\ \E c \in checked : c.key = sl.key /\ c.at = runs[2].started
  /\ \A c \in checked : c.outcome = "unmatched"
  /\ fired = <<>>

\* C30: a slot that matches the weekday and the minute at which a tick was
\* started is not found "not due" by that tick, whenever the loop reaches it.
C30_DueAtTickStartIsHandled ==
  [][ \A p \in 1..Len(runs) : loops(p) =>
        \A c \in newChecks : \A sl \in slotOf(c.key) :
          MatchesAt(sl, runs[p].started) => c.outcome # "unmatched"
    ]_vars

\* ------------------------------------------------------------ C31 .. C39
guardsOf(run, i) == {j \in 1..Len(run.log) : run.log[j].e = "guard" /\ run.log[j].ai = i}

\* C31: in the log of a firing, by a tick or by a manual trigger, every send
\* of an action that has a condition comes after an evaluation of that
\* condition that was true, and an action whose condition evaluated to false
\* has no send.
C31_GuardGatesSend ==
  \A p \in Running : InSlot(runs[p]) =>
    LET run == runs[p]
        actions == currentActions(run)
    IN  \A i \in 1..Len(actions) : Has(actions[i], "condition") =>
          /\ \A j \in sends(run, i) : \E k \in guardsOf(run, i) : k < j /\ run.log[k].met
          /\ (\E k \in guardsOf(run, i) : ~run.log[k].met) => sends(run, i) = {}

\* a manual trigger ended its slot: the guard of action 1 was false, action 1
\* was not sent and the unguarded action 3 was
C31_Witness ==
  \E p \in Running :
    /\ runs[p].kind = "manual" /\ runs[p].pc = "ret"
    /\ Has(currentActions(runs[p])[1], "condition")
    /\ \E k \in guardsOf(runs[p], 1) : ~runs[p].log[k].met
    /\ sends(runs[p], 1) = {} /\ sends(runs[p], 3) # {}

allSends(run) == {j \in 1..Len(run.log) : run.log[j].e = "send"}
sameSlot(p) == InSlot(runs[p]) /\ runs[p].pc # "ret"
\* the sends the step has added to the log of run p
newSends(p) ==
  IF p > Len(runs) THEN Cardinality(allSends(runs'[p]))
  ELSE IF runs'[p] = runs[p] THEN 0
  ELSE IF sameSlot(p) THEN Cardinality(allSends(runs'[p])) - Cardinality(allSends(runs[p]))
  ELSE Cardinality(allSends(runs'[p]))
before(si, ki, sj, kj) == si < sj \/ (si = sj /\ ki < kj)

\* C32: the log of a firing lists the actions in their stored order; a run
\* that awaits the guard read or the send of action i moves on only when
\* that very call settles, stays in its slot, and goes to a later action; a
\* step starts at most one send and the run then awaits it; a tick leaves a
\* slot only for a later slot of its snapshot, in schedule and slot order.
C32_SequentialDispatch ==
  [][ /\ \A p \in 1..Len(runs') :
           /\ \A j, k \in 2..Len(runs'[p].log) : j < k => runs'[p].log[j].ai <= runs'[p].log[k].ai
           /\ newSends(p) <= 1
           /\ newSends(p) = 1 =>
                /\ runs'[p].pc = "send"
                /\ runs'[p].log[Len(runs'[p].log)].e = "send"
                /\ runs'[p].log[Len(runs'[p].log)].ai = runs'[p].ai
      /\ \A p \in 1..Len(runs) : (runs[p].pc \in {"guard", "send"} /\ runs'[p] # runs[p]) =>
           /\ runs'[p].io.op = (IF runs[p].pc = "guard" THEN "getDeviceStatus" ELSE "sendCommand")
           /\ runs'[p].io.ai = runs[p].ai
           /\ InSlot(runs'[p]) /\ runs'[p].si = runs[p].si /\ runs'[p].ki = runs[p].ki
           /\ runs'[p].ai >= runs[p].ai
           /\ runs[p].pc = "send" => runs'[p].ai > runs[p].ai
      /\ \A p \in 1..Len(runs) : (runs[p].kind = "tick" /\ runs[p].pc = "ret" /\ runs'[p] # runs[p]) =>
           \/ runs'[p].pc = "done"
           \/ before(runs[p].si, runs[p].ki, runs'[p].si, runs'[p].ki)
    ]_vars

\* a tick awaits the send of action 3 of a slot after the guard read and the
\* send of action 1 have settled
C32_Witness ==
  \E p \in Running :
    /\ runs[p].kind = "tick" /\ runs[p].pc = "send" /\ runs[p].ai = 3
    /\ runs[p].io.op = "sendCommand" /\ runs[p].io.ai = 1
    /\ guardsOf(runs[p], 1) # {} /\ Cardinality(allSends(runs[p])) = 2

\* C33: no step of a manual trigger changes the dedup map, and a due check
\* of a tick is suppressed only when a tick has fired the same key within
\* the two minutes before.
C33_ManualLeavesDedupAlone ==
  [][ /\ \A p \in 1..Len(runs) : (runs[p].kind = "manual" /\ runs'[p] # runs[p]) =>
           lastExecutionTimes' = lastExecutionTimes
      /\ \A c \in newChecks : c.outcome = "suppressed" =>
           \E x \in TickFirings : x.key = c.key /\ x.at <= c.at /\ c.at - x.at < DedupWindowMs
    ]_vars

CalendarDay(t) == t \div DayMs

\* C35: with ticks only, two firings of one (schedule, slot) key never fall
\* on the same calendar day, whether or not tick runs overlap; a firing is
\* counted once.
C35_OncePerDayUnderOverlap ==
  \A x \in TickFirings :
    /\ fired[x] = 1
    /\ \A y \in TickFirings : (y.key = x.key /\ CalendarDay(y.at) = CalendarDay(x.at)) => y = x

\* while a tick that fired a slot still awaits I/O inside it, a second tick
\* has checked the same slot in the same minute and was suppressed
C35_Witness ==
  /\ \E p \in Running, q \in Ticks :
       /\ runs[p].kind = "tick" /\ runs[p].pc \in {"guard", "send"}
       /\ runs[q].started > runs[p].log[1].at
       /\ \E c \in checked :
            /\ c.key = runs[p].log[1].key /\ c.outcome = "suppressed"
            /\ c.at >= runs[q].started
            /\ WeekMinute(c.at) = WeekMinute(runs[p].log[1].at)
  /\ Cardinality(TickFirings) = 1

\* the enabled stored schedules that carry the id a manual run was given
enabledWithId(run) ==
  { sch \in { store[h[1]].schedules[h[2]] :
                h \in { x \in (1..Len(store)) \X (1..2) : x[2] <= Len(store[x[1]].schedules) } } :
      sch.enabled /\ sch.id = run.args[1] }
hasSlot(sch, slotId) == \E k \in 1..Len(timeSlotsOf(sch)) : timeSlotsOf(sch)[k].id = slotId
returns(p) == runs[p].kind = "manual" /\ runs[p].pc # "done" /\ runs'[p].pc = "done"
Refusals == {"Schedule not found", "Time slot not found", "store read failed"}

\* C36: a triggerTimeSlot call that returns from its store read returns one
\* of the three refusals, and then the dedup map and the firings are as
\* before: 'Schedule not found' exactly when no enabled schedule carries the
\* id, 'Time slot not found' only when an enabled schedule with the id
\* lacks the slot; a call that returns later, after the slot's actions,
\* returns success whatever the sends gave.
C36_ManualTriggerOutcomes ==
  [][ \A p \in 1..Len(runs) : returns(p) =>
        IF runs[p].pc = "load"
          THEN /\ runs'[p].out \in Refusals
               /\ lastExecutionTimes' = lastExecutionTimes /\ fired' = fired
               /\ runs'[p].out = "Schedule not found" => enabledWithId(runs[p]) = {}
               /\ runs'[p].out = "Time slot not found" =>
                    \E sch \in enabledWithId(runs[p]) : ~hasSlot(sch, runs[p].args[2])
               /\ enabledWithId(runs[p]) = {} => runs'[p].out \in {"Schedule not found", "store read failed"}
          ELSE runs'[p].out = "ok"
    ]_vars

\* C37: the slot a test request fires belongs to a schedule stored under
\* the user who made the request.
C37_TestRunsOwnScheduleOnly ==
  \A p \in 1..Len(runs) :
    (runs[p].kind = "manual" /\ InSlot(runs[p])) => runs[p].log[1].userId = runs[p].args[3]

\* C38: every sendCommand / getDeviceStatus call whose requests are all
\* answered returns a result to the scheduler.
C38_RequestTerminates == <>(cOut.pc = "done")

\* C39: the colour written for a ColorRGB command has a hue in 0..359, a
\* saturation in 0..1000 and a value in 0..1000, and hue 0 and saturation 0
\* when the three channels are equal.
C39_HsvRanges ==
  (cOut.done /\ cIn.command.type = "ColorRGB") =>
    LET hsv == cOut.value[2].value.json
        rgb == rgbOf(cIn.command)
    IN  /\ hsv.h \in 0..359 /\ hsv.s \in 0..1000 /\ hsv.v \in 0..1000
        /\ (rgb[1] = rgb[2] /\ rgb[2] = rgb[3]) => (hsv.h = 0 /\ hsv.s = 0)

\* a red with a little blue got the wrapped hue 359, and one with less blue,
\* whose hue rounds to zero from below, is among the inputs
C39_Witness ==
  /\ cOut.done /\ cIn.command = [type |-> "ColorRGB", r |-> 255, g |-> 0, b |-> 4]
  /\ cOut.value[2].value.json = [h |-> 359, s |-> 1000, v |-> 1000]
  /\ rgbToHsv(255, 0, 1).h = 0

====
